---------------------------- MODULE Spec2Model ----------------------------
(***************************************************************************)
(* Model of the Mahoot feed generator: the relational store (preferences,  *)
(* followee edges, post catalog, view records, daily statistics) and the   *)
(* feed handler, one action per storage round-trip of the handler.         *)
(***************************************************************************)
EXTENDS Integers, Sequences, FiniteSets, Bags, TLC

(***************************************************************************)
(* Bounds of the model.                                                    *)
(***************************************************************************)
MaxDay == 0
MaxQuota == 2
MaxLimit == 2
MaxPage == 2
MaxPosts == 2
MaxRows == 3
MaxCalls == 3
MaxRequests == 2

(***************************************************************************)
(* Program constants.                                                      *)
(***************************************************************************)
DefaultDailyPostLimit == 300
DefaultMahootNumber == 7
DefaultPageLimit == 20
OverFetch == 3

Users == {"u1"}
Authors == {"a1", "a2"}
Procs == {1}

VARIABLES
    now,                      \* the clock read by new Date()
    user_preferences,         \* table: set of rows, primary key user_did
    followee_relationships,   \* table: set of rows, unique (user_did, followee_did)
    post,                     \* table: set of rows, primary key uri
    post_statistics,          \* table without any key: a bag of rows
    daily_stats,              \* table: set of rows, unique (user_did, date)
    pc,                       \* per call: where the handler stands
    loc,                      \* per call: the handler's local variables
    pre                       \* per call: the tables as they were when it began
                              \* (loc[p].writes counts the inserts and updates it made)

vars == <<now, user_preferences, followee_relationships, post, post_statistics,
          daily_stats, pc, loc, pre>>

tables == <<user_preferences, followee_relationships, post, post_statistics,
            daily_stats>>

Min(a, b) == IF a <= b THEN a ELSE b

(***************************************************************************)
(* Timestamps.  An instant is a UTC day and whether it is that day's last  *)
(* millisecond, 23:59:59.999: the only distinction the queries make.       *)
(***************************************************************************)
Days == 0..MaxDay
Instants == [day : Days, last : BOOLEAN]

\* now.toISOString().split('T')[0]
DateOf(t) == t.day

\* mutant: the lower bound on viewed_at is missing
AtOrAfterDayStartAnyDay(t, today) == TRUE

\* viewed_at >= `${today}T00:00:00.000Z`   (ISO strings compare as instants)
AtOrAfterDayStart(t, today) == t.day >= today

\* viewed_at < `${today}T23:59:59.999Z`
BeforeDayEnd(t, today) == t.day < today \/ (t.day = today /\ ~t.last)

(***************************************************************************)
(* Bags of rows.                                                           *)
(***************************************************************************)
SubBagWhere(B, P(_)) == [r \in {x \in DOMAIN B : P(x)} |-> B[r]]

CountWhere(B, P(_)) == BagCardinality(SubBagWhere(B, P))

RECURSIVE Perms(_)
Perms(S) == IF S = {} THEN {<<>>}
            ELSE UNION {{<<x>> \o q : q \in Perms(S \ {x})} : x \in S}

SeqToSet(s) == {s[i] : i \in 1..Len(s)}

(***************************************************************************)
(* The post catalog.  A URI at://<author>/app.bsky.feed.post/<k> is the    *)
(* pair <<author, k>>; posts of one author are indexed in the order of k.  *)
(***************************************************************************)
PostRow(a, k) == [uri |-> <<a, k>>, author_did |-> a, indexedAt |-> k]

Catalog(n1, n2) == {PostRow("a1", k) : k \in 1..n1} \cup {PostRow("a2", k) : k \in 1..n2}

GeneralCatalog == Catalog(MaxPosts, 1)

(***************************************************************************)
(* Queries.                                                                *)
(***************************************************************************)
\* getPostsViewedToday
getPostsViewedToday(viewerDid, t) ==
    SubBagWhere(post_statistics,
                LAMBDA r : /\ r.viewer_did = viewerDid
                           /\ AtOrAfterDayStart(r.viewed_at, DateOf(t))
                           /\ BeforeDayEnd(r.viewed_at, DateOf(t)))

\* getUserFollowees
getUserFollowees(userDid) == {r \in followee_relationships : r.user_did = userDid}

\* mutant: the NOT EXISTS on post_statistics is missing
UnviewedRowsAnyPost(viewerDid, authorDid) == {q \in post : q.author_did = authorDid}

\* the rows of getUnviewedPostsByAuthor before ORDER BY and LIMIT
UnviewedRows(viewerDid, authorDid) ==
    {q \in post : /\ q.author_did = authorDid
                  /\ ~\E r \in DOMAIN post_statistics :
                        r.post_uri = q.uri /\ r.viewer_did = viewerDid}

\* ORDER BY indexedAt DESC LIMIT n, as a sequence
RECURSIVE NewestFirst(_, _)
NewestFirst(S, n) ==
    IF S = {} \/ n <= 0 THEN <<>>
    ELSE LET m == CHOOSE x \in S : \A y \in S : y.indexedAt <= x.indexedAt
         IN  <<m>> \o NewestFirst(S \ {m}, n - 1)

getUnviewedPostsByAuthor(viewerDid, authorDid, limit) ==
    NewestFirst(UnviewedRows(viewerDid, authorDid), limit)

\* Array.prototype.slice(0, n)
Slice(s, n) == SubSeq(s, 1, Min(Len(s), n))

(***************************************************************************)
(* The handler's pure steps.                                               *)
(***************************************************************************)
\* mutant: the requested page size is ignored
PageLimitIgnored(limit) == DefaultPageLimit

\* params.limit || 20
PageLimit(limit) == IF limit = 0 THEN DefaultPageLimit ELSE limit

\* postsViewedCount >= userPrefs.daily_post_limit
LimitReached(count, limit) == count >= limit

\* mutant: the early return on an empty followee list is missing
NoFolloweesNever(fs) == FALSE

\* followees.length === 0
NoFollowees(fs) == fs = {}

\* mutant: the followees are left in the order the store returned them
SortedFolloweesUnsorted(fs) == Perms(fs)

\* followees.sort((a, b) => b.mahoot_number - a.mahoot_number): the rows come
\* from the store in no stated order and the sort is stable, so rows of equal
\* mahoot_number may come in any order.
SortedFollowees(fs) ==
    {s \in Perms(fs) : \A i \in 1..Len(s) : \A j \in i..Len(s) :
                            s[i].mahoot_number >= s[j].mahoot_number}

\* mutant: a mahoot_number of 0 falls back to the default (as params.limit || 20)
FolloweeSlotsZeroIsDefault(mahootNumber, viewedCount, postsToShow, feedLen) ==
    LET m == IF mahootNumber = 0 THEN DefaultMahootNumber ELSE mahootNumber
        n == Min(m - viewedCount, postsToShow - feedLen)
    IN  IF viewedCount >= m \/ n <= 0 THEN 0 ELSE n

\* The loop head for one followee: 0 when the followee is skipped, else
\* postsToShowFromFollowee.
FolloweeSlots(mahootNumber, viewedCount, postsToShow, feedLen) ==
    IF mahootNumber = 0 THEN 0
    ELSE IF viewedCount >= mahootNumber THEN 0
    ELSE LET n == Min(mahootNumber - viewedCount, postsToShow - feedLen)
         IN  IF n <= 0 THEN 0 ELSE n

\* The recency key the final sort parses out of a URI: its last segment.
UriTime(uri) == uri[2]

\* mahootFeed.sort((a, b) => bTime - aTime): stable, most recent key first
RECURSIVE SortFeed(_)
SortFeed(s) ==
    IF s = <<>> THEN <<>>
    ELSE LET i == CHOOSE k \in 1..Len(s) :
                    /\ \A m \in 1..Len(s) : UriTime(s[m].post) <= UriTime(s[k].post)
                    /\ \A m \in 1..(k - 1) : UriTime(s[m].post) < UriTime(s[k].post)
         IN  <<s[i]>> \o SortFeed(SubSeq(s, 1, i - 1) \o SubSeq(s, i + 1, Len(s)))

Undefined == [undefined |-> TRUE]

\* cursor = `${Date.now()}::${lastPost.post}` when the feed is not empty
CursorOf(feed, t) ==
    IF Len(feed) > 0 THEN [at |-> t, post |-> feed[Len(feed)].post] ELSE Undefined

(***************************************************************************)
(* Initial states: an empty view log and statistics, the clock at the      *)
(* start of day 0, and a configuration the setup operations can produce.   *)
(***************************************************************************)
PrefsRow(u, l) ==
    [user_did |-> u, daily_post_limit |-> l, default_mahoot_number |-> DefaultMahootNumber]

EdgeRow(u, f, q) == [user_did |-> u, followee_did |-> f, mahoot_number |-> q]

EdgeConfigs ==
    {S \in SUBSET {EdgeRow(u, f, q) : u \in Users, f \in Authors, q \in 0..MaxQuota} :
        \A r1 \in S : \A r2 \in S :
            (r1.user_did = r2.user_did /\ r1.followee_did = r2.followee_did) => r1 = r2}

PrefsConfigs ==
    {{}} \cup {{PrefsRow("u1", l)} : l \in 1..MaxLimit}

InitLoc ==
    [user |-> "u1", limit |-> 0, userPrefs |-> Undefined, followees |-> {},
     postsViewedToday |-> EmptyBag, postsViewedCount |-> 0, postsToShow |-> 0,
     today |-> 0, sorted |-> <<>>, slots |-> 0, shuffled |-> <<>>,
     viewedFromFollowee |-> 0, mahootFeed |-> <<>>, cursor |-> Undefined,
     metadata |-> Undefined, stage |-> "none", writes |-> 0]

Snapshot == [up |-> user_preferences, fr |-> followee_relationships,
             ps |-> post_statistics, ds |-> daily_stats, at |-> now]

InitCommon ==
    /\ now = [day |-> 0, last |-> FALSE]
    /\ post_statistics = EmptyBag
    /\ daily_stats = {}
    /\ pc = [p \in Procs |-> "idle"]
    /\ loc = [p \in Procs |-> InitLoc]
    /\ pre = [p \in Procs |-> [up |-> {}, fr |-> {}, ps |-> EmptyBag, ds |-> {},
                             at |-> [day |-> 0, last |-> FALSE]]]

InitGeneral ==
    /\ InitCommon
    /\ user_preferences \in PrefsConfigs
    /\ followee_relationships \in EdgeConfigs
    /\ post = GeneralCatalog

\* one followee of quota 3 with 50 unread posts, daily_post_limit 300
CatalogNine == Catalog(50, 0)

InitNine ==
    /\ InitCommon
    /\ user_preferences = {PrefsRow("u1", DefaultDailyPostLimit)}
    /\ followee_relationships = {EdgeRow("u1", "a1", 3)}
    /\ post = CatalogNine

\* two followees of quotas 10 and 3, the page capped at 8
CatalogEight == Catalog(9, 4)

InitEight ==
    /\ InitCommon
    /\ user_preferences = {PrefsRow("u1", DefaultDailyPostLimit)}
    /\ followee_relationships = {EdgeRow("u1", "a1", 10), EdgeRow("u1", "a2", 3)}
    /\ post = CatalogEight

\* the page sizes the callers of a configuration ask for
\* one followee with two unread posts, for two calls that overlap
CatalogRace == Catalog(2, 0)

PageSizes ==
    CASE post = CatalogNine -> {30}
      [] post = CatalogEight -> {8}
      [] post = CatalogRace -> {MaxPage}
      [] OTHER -> (-1)..MaxPage

(***************************************************************************)
(* The clock.                                                              *)
(***************************************************************************)
Tick ==
    /\ now.last => now.day < MaxDay
    /\ now' = IF now.last THEN [day |-> now.day + 1, last |-> FALSE]
                          ELSE [now EXCEPT !.last = TRUE]
    /\ UNCHANGED <<tables, pc, loc, pre>>

(***************************************************************************)
(* The feed handler.                                                       *)
(***************************************************************************)
\* mutant: the metadata reports the counts after the call
feedMetadataAfterCall(p, feed) ==
    [dailyPostLimit |-> loc[p].userPrefs.daily_post_limit,
     defaultMahootNumber |-> loc[p].userPrefs.default_mahoot_number,
     followeeCount |-> Cardinality(loc[p].followees),
     postsViewedToday |-> loc[p].postsViewedCount + Len(feed),
     remainingPosts |-> loc[p].userPrefs.daily_post_limit
                            - (loc[p].postsViewedCount + Len(feed))]

\* feedMetadata of a call that got past the early returns
feedMetadata(p, feed) ==
    [dailyPostLimit |-> loc[p].userPrefs.daily_post_limit,
     defaultMahootNumber |-> loc[p].userPrefs.default_mahoot_number,
     followeeCount |-> Cardinality(loc[p].followees),
     postsViewedToday |-> loc[p].postsViewedCount,
     remainingPosts |-> loc[p].userPrefs.daily_post_limit - loc[p].postsViewedCount]

\* return { cursor, feed } of the early returns, { cursor, feed, metadata } of
\* the full call
Return(p, feed, cursor, stage, written) ==
    /\ pc' = [pc EXCEPT ![p] = "returned"]
    /\ loc' = [loc EXCEPT ![p].mahootFeed = feed, ![p].cursor = cursor,
                          ![p].metadata = IF stage = "full" THEN feedMetadata(p, feed)
                                                            ELSE Undefined,
                          ![p].stage = stage, ![p].writes = @ + written,
                          ![p].sorted = <<>>,
                          ![p].shuffled = <<>>, ![p].slots = 0,
                          ![p].viewedFromFollowee = 0]

\* the identities a call may carry: a user's DID, or "" when there is none
\* (undefined and the empty string are both falsy)
Requesters == Users \cup {""}

\* mutant: the check of the requester is missing
AuthenticatedAlways(requesterDid) == TRUE

\* !requesterDid is false
Authenticated(requesterDid) == requesterDid # ""

\* a call can begin when the one before it has ended
CallEnded(p) == pc[p] \in {"idle", "returned", "failed"}

\* handler is called without a requester: throw new Error(...)
Unauthenticated(p) ==
    /\ CallEnded(p)
    /\ \E u \in Requesters :
          /\ ~Authenticated(u)
          /\ loc' = [loc EXCEPT ![p] = [InitLoc EXCEPT !.user = u,
                                                       !.stage = "authRequired"]]
    /\ pc' = [pc EXCEPT ![p] = "failed"]
    /\ pre' = [pre EXCEPT ![p] = Snapshot]
    /\ UNCHANGED <<now, tables>>

\* handler is called with a requester and a page size
Begin(p) ==
    /\ CallEnded(p)
    /\ BagCardinality(post_statistics) <= MaxRows
    /\ \E u \in Requesters : \E limit \in PageSizes :
          /\ Authenticated(u)
          /\ loc' = [loc EXCEPT ![p] = [InitLoc EXCEPT !.user = u, !.limit = limit]]
    /\ pc' = [pc EXCEPT ![p] = "prefs"]
    /\ pre' = [pre EXCEPT ![p] = Snapshot]
    /\ UNCHANGED <<now, tables>>

\* getOrCreateUserPreferences: the select
PrefsSelect(p) ==
    /\ pc[p] = "prefs"
    /\ LET existing == {r \in user_preferences : r.user_did = loc[p].user}
       IN  IF existing # {}
           THEN /\ loc' = [loc EXCEPT ![p].userPrefs = CHOOSE r \in existing : TRUE]
                /\ pc' = [pc EXCEPT ![p] = "followees"]
           ELSE /\ pc' = [pc EXCEPT ![p] = "prefsInsert"]
                /\ loc' = loc
    /\ UNCHANGED <<now, tables, pre>>

\* getOrCreateUserPreferences: the insert of the default row
PrefsInsert(p) ==
    /\ pc[p] = "prefsInsert"
    /\ ~\E r \in user_preferences : r.user_did = loc[p].user
    /\ LET row == PrefsRow(loc[p].user, DefaultDailyPostLimit)
       IN  /\ user_preferences' = user_preferences \cup {row}
           /\ loc' = [loc EXCEPT ![p].userPrefs = row, ![p].writes = @ + 1]
    /\ pc' = [pc EXCEPT ![p] = "followees"]
    /\ UNCHANGED <<now, followee_relationships, post, post_statistics, daily_stats,
                   pre>>

\* getUserFollowees and the early return on an empty list
GetFollowees(p) ==
    /\ pc[p] = "followees"
    /\ LET fs == getUserFollowees(loc[p].user)
       IN  IF NoFollowees(fs)
           THEN Return(p, <<>>, Undefined, "noFollowees", 0)
           ELSE /\ loc' = [loc EXCEPT ![p].followees = fs]
                /\ pc' = [pc EXCEPT ![p] = "viewed"]
    /\ UNCHANGED <<now, tables, pre>>

\* getPostsViewedToday
GetViewed(p) ==
    /\ pc[p] = "viewed"
    /\ LET viewed == getPostsViewedToday(loc[p].user, now)
       IN  loc' = [loc EXCEPT ![p].postsViewedToday = viewed,
                              ![p].postsViewedCount = BagCardinality(viewed)]
    /\ pc' = [pc EXCEPT ![p] = "limit"]
    /\ UNCHANGED <<now, tables, pre>>

\* the daily-limit check, postsToShow, today and the priority sort
CheckLimit(p) ==
    /\ pc[p] = "limit"
    /\ IF LimitReached(loc[p].postsViewedCount, loc[p].userPrefs.daily_post_limit)
       THEN Return(p, <<>>, Undefined, "limitReached", 0)
       ELSE /\ \E s \in SortedFollowees(loc[p].followees) :
                  loc' = [loc EXCEPT
                            ![p].postsToShow =
                                Min(loc[p].userPrefs.daily_post_limit
                                        - loc[p].postsViewedCount,
                                    PageLimit(loc[p].limit)),
                            ![p].today = DateOf(now),
                            ![p].sorted = s]
            /\ pc' = [pc EXCEPT ![p] = "loop"]
    /\ UNCHANGED <<now, tables, pre>>

\* the head of the followee loop: skip the followee or go and fetch its posts
LoopHead(p) ==
    /\ pc[p] = "loop"
    /\ IF loc[p].sorted = <<>>
       THEN /\ pc' = [pc EXCEPT ![p] = "stats"]
            /\ loc' = loc
       ELSE LET followee == Head(loc[p].sorted)
                viewedCount == CountWhere(loc[p].postsViewedToday,
                                   LAMBDA r : r.author_did = followee.followee_did)
                n == FolloweeSlots(followee.mahoot_number, viewedCount,
                                   loc[p].postsToShow, Len(loc[p].mahootFeed))
            IN  IF n = 0
                THEN /\ loc' = [loc EXCEPT ![p].sorted = Tail(loc[p].sorted)]
                     /\ pc' = pc
                ELSE /\ loc' = [loc EXCEPT ![p].slots = n,
                                           ![p].viewedFromFollowee = viewedCount]
                     /\ pc' = [pc EXCEPT ![p] = "fetch"]
    /\ UNCHANGED <<now, tables, pre>>

\* getUnviewedPostsByAuthor, the slice and the shuffle
Fetch(p) ==
    /\ pc[p] = "fetch"
    /\ LET followee == Head(loc[p].sorted)
           unviewedPosts == getUnviewedPostsByAuthor(loc[p].user, followee.followee_did,
                                                     loc[p].slots * OverFetch)
           postsToInclude == Slice(unviewedPosts, loc[p].slots)
       IN  IF Len(unviewedPosts) = 0
           THEN /\ loc' = [loc EXCEPT ![p].sorted = Tail(loc[p].sorted)]
                /\ pc' = [pc EXCEPT ![p] = "loop"]
           ELSE /\ \E shuffledPosts \in Perms(SeqToSet(postsToInclude)) :
                      loc' = [loc EXCEPT ![p].shuffled = shuffledPosts]
                /\ pc' = [pc EXCEPT ![p] = "track"]
    /\ UNCHANGED <<now, tables, pre>>

\* mutant: the view is recorded for the author, not for the viewer
trackPostViewOfAuthor(postUri, authorDid, viewerDid) ==
    post_statistics' = post_statistics (+)
        SetToBag({[post_uri |-> postUri, author_did |-> authorDid,
                   viewer_did |-> authorDid, viewed_at |-> now]})

\* trackPostView: the insert into post_statistics
trackPostView(postUri, authorDid, viewerDid) ==
    post_statistics' = post_statistics (+)
        SetToBag({[post_uri |-> postUri, author_did |-> authorDid,
                   viewer_did |-> viewerDid, viewed_at |-> now]})

\* one pass of the inner loop: push the item, track the view, count, break
Track(p) ==
    /\ pc[p] = "track"
    /\ LET followee == Head(loc[p].sorted)
           item == [post |-> Head(loc[p].shuffled).uri,
                    author_did |-> followee.followee_did,
                    mahoot_number |-> followee.mahoot_number,
                    posts_viewed_today |-> loc[p].viewedFromFollowee]
           feed == Append(loc[p].mahootFeed, item)
           rest == Tail(loc[p].shuffled)
       IN  /\ trackPostView(item.post, followee.followee_did, loc[p].user)
           /\ IF Len(feed) >= loc[p].postsToShow
              THEN /\ pc' = [pc EXCEPT ![p] = "stats"]
                   /\ loc' = [loc EXCEPT ![p].mahootFeed = feed,
                                         ![p].shuffled = <<>>,
                                         ![p].viewedFromFollowee = @ + 1,
                                         ![p].writes = @ + 1]
              ELSE IF rest = <<>>
              THEN /\ pc' = [pc EXCEPT ![p] = "loop"]
                   /\ loc' = [loc EXCEPT ![p].mahootFeed = feed,
                                         ![p].shuffled = <<>>,
                                         ![p].viewedFromFollowee = @ + 1,
                                         ![p].writes = @ + 1,
                                         ![p].sorted = Tail(loc[p].sorted)]
              ELSE /\ pc' = pc
                   /\ loc' = [loc EXCEPT ![p].mahootFeed = feed,
                                         ![p].shuffled = rest,
                                         ![p].viewedFromFollowee = @ + 1,
                                         ![p].writes = @ + 1]
    /\ UNCHANGED <<now, user_preferences, followee_relationships, post, daily_stats,
                   pre>>

\* mutant: the total is counted afresh from post_statistics
StatRowRecounted(p) ==
    [user_did |-> loc[p].user, date |-> loc[p].today,
     total_posts_viewed |->
         BagCardinality(SubBagWhere(post_statistics,
             LAMBDA r : r.viewer_did = loc[p].user /\ DateOf(r.viewed_at) = loc[p].today)),
     followee_count |-> Cardinality(loc[p].followees)]

StatRow(p) ==
    [user_did |-> loc[p].user, date |-> loc[p].today,
     total_posts_viewed |-> loc[p].postsViewedCount + Len(loc[p].mahootFeed),
     followee_count |-> Cardinality(loc[p].followees)]

StatKeyTaken(p) ==
    \E r \in daily_stats : r.user_did = loc[p].user /\ r.date = loc[p].today

\* the final sort and updateDailyStats when its insert succeeds
StatsInsert(p) ==
    /\ pc[p] = "stats"
    /\ ~StatKeyTaken(p)
    /\ daily_stats' = daily_stats \cup {StatRow(p)}
    /\ LET feed == SortFeed(loc[p].mahootFeed)
       IN  Return(p, feed, CursorOf(feed, now), "full", 1)
    /\ UNCHANGED <<now, user_preferences, followee_relationships, post,
                   post_statistics, pre>>

\* updateDailyStats when its insert hits the unique constraint
StatsInsertFails(p) ==
    /\ pc[p] = "stats"
    /\ StatKeyTaken(p)
    /\ pc' = [pc EXCEPT ![p] = "statsUpdate"]
    /\ UNCHANGED <<now, tables, loc, pre>>

\* updateDailyStats: the update in the catch block
StatsUpdate(p) ==
    /\ pc[p] = "statsUpdate"
    /\ daily_stats' =
          {IF r.user_did = loc[p].user /\ r.date = loc[p].today THEN StatRow(p) ELSE r :
              r \in daily_stats}
    /\ LET feed == SortFeed(loc[p].mahootFeed)
       IN  Return(p, feed, CursorOf(feed, now), "full", 1)
    /\ UNCHANGED <<now, user_preferences, followee_relationships, post,
                   post_statistics, pre>>

Handler(p) ==
    \/ Unauthenticated(p)
    \/ Begin(p)
    \/ PrefsSelect(p)
    \/ PrefsInsert(p)
    \/ GetFollowees(p)
    \/ GetViewed(p)
    \/ CheckLimit(p)
    \/ LoopHead(p)
    \/ Fetch(p)
    \/ Track(p)
    \/ StatsInsert(p)
    \/ StatsInsertFails(p)
    \/ StatsUpdate(p)

(***************************************************************************)
(* Non-overlapping handler calls under a running clock.                    *)
(***************************************************************************)
Init == InitGeneral \/ InitNine

Next == Tick \/ Handler(1)

Spec == Init /\ [][Next]_vars

(***************************************************************************)
(* Non-overlapping handler calls at one instant (the clock stands still).  *)
(***************************************************************************)
InitPriority == InitGeneral \/ InitEight

NextPriority == Handler(1)

SpecPriority == InitPriority /\ [][NextPriority]_vars

(***************************************************************************)
(* Direct calls of trackPostView under a running clock.                    *)
(***************************************************************************)
RecordView(q, viewerDid) ==
    /\ BagCardinality(post_statistics) < MaxRows
    /\ trackPostView(q.uri, q.author_did, viewerDid)
    /\ UNCHANGED <<now, user_preferences, followee_relationships, post, daily_stats,
                   pc, loc, pre>>

NextTracker == Tick \/ \E q \in post : \E v \in Users : RecordView(q, v)

SpecTracker == InitGeneral /\ [][NextTracker]_vars

(***************************************************************************)
(* What the claims speak of.                                               *)
(***************************************************************************)
Idle == \A p \in Procs : pc[p] \in {"idle", "returned"}

\* the ViewRecords of a viewer dated day d
ViewsOn(u, d) ==
    CountWhere(post_statistics,
               LAMBDA r : r.viewer_did = u /\ DateOf(r.viewed_at) = d)

\* the ViewRecords of a viewer for one author dated day d
ViewsOfOn(u, f, d) ==
    CountWhere(post_statistics,
               LAMBDA r : r.viewer_did = u /\ r.author_did = f /\ DateOf(r.viewed_at) = d)

\* the ViewRecords of (post, viewer)
ViewsOfPost(B, uri, u) ==
    CountWhere(B, LAMBDA r : r.post_uri = uri /\ r.viewer_did = u)

\* the rows a call has added to post_statistics since it began
NewViews(p) == post_statistics (-) pre[p].ps

ItemsFrom(feed, a) == Cardinality({i \in 1..Len(feed) : feed[i].author_did = a})

\* the posts of an author the viewer had not viewed when the call began
SupplyAtStart(p, a) ==
    Cardinality({q \in post : /\ q.author_did = a
                               /\ ViewsOfPost(pre[p].ps, q.uri, loc[p].user) = 0})

\* what the call read as viewed today from an author
ViewedTodayFrom(p, a) ==
    CountWhere(loc[p].postsViewedToday, LAMBDA r : r.author_did = a)

ReadViewed(p) == pc[p] = "returned" /\ loc[p].stage \in {"limitReached", "full"}


(***************************************************************************)
(* C1. Per-followee daily quota cap: once the non-overlapping calls of a   *)
(* day are over, a viewer has at most quota(U,F) ViewRecords of followee F *)
(* dated that day, for every day and every edge (no quota is ever lowered  *)
(* here).                                                                  *)
(***************************************************************************)
QuotaCapPerDay ==
    Idle => \A e \in followee_relationships : \A d \in Days :
                ViewsOfOn(e.user_did, e.followee_did, d) <= e.mahoot_number

(***************************************************************************)
(* C2. Daily budget: a user's ViewRecords dated one day never number more  *)
(* than the user's daily_post_limit (the limit is never changed here), so  *)
(* the feeds of one day sum up to at most the limit.                       *)
(***************************************************************************)
DailyBudget ==
    Idle => \A r \in user_preferences : \A d \in Days :
                ViewsOn(r.user_did, d) <= r.daily_post_limit

(***************************************************************************)
(* C3. A call that starts when the requester already has at least          *)
(* daily_post_limit ViewRecords dated the current day returns an empty     *)
(* feed, has issued no insert or update, and leaves the ViewRecord,        *)
(* DailyStat, preferences and followee tables as it found them.            *)
(***************************************************************************)
LimitReachedNoWrites ==
    \A p \in Procs : \A r \in pre[p].up :
        ( /\ pc[p] = "returned"
          /\ r.user_did = loc[p].user
          /\ CountWhere(pre[p].ps,
                        LAMBDA v : /\ v.viewer_did = loc[p].user
                                   /\ DateOf(v.viewed_at) = DateOf(pre[p].at))
                >= r.daily_post_limit )
        => /\ loc[p].mahootFeed = <<>>
           /\ loc[p].writes = 0
           /\ post_statistics = pre[p].ps
           /\ daily_stats = pre[p].ds
           /\ user_preferences = pre[p].up
           /\ followee_relationships = pre[p].fr

(***************************************************************************)
(* C4. Page cap: a call with page size P >= 1 that read viewedCount returns*)
(* at most min(daily_post_limit - viewedCount, P) items, and every call    *)
(* with P >= 1 has added exactly one ViewRecord per returned item and no   *)
(* other.                                                                  *)
(***************************************************************************)
PageCap ==
    \A p \in Procs :
        (pc[p] = "returned" /\ loc[p].limit >= 1)
        => /\ ReadViewed(p) =>
                Len(loc[p].mahootFeed) <=
                    Min(loc[p].userPrefs.daily_post_limit - loc[p].postsViewedCount,
                        loc[p].limit)
           /\ BagCardinality(NewViews(p)) = Len(loc[p].mahootFeed)
           /\ pre[p].ps \sqsubseteq post_statistics
           /\ \A i \in 1..Len(loc[p].mahootFeed) :
                 CountWhere(NewViews(p),
                            LAMBDA r : /\ r.post_uri = loc[p].mahootFeed[i].post
                                       /\ r.author_did = loc[p].mahootFeed[i].author_did
                                       /\ r.viewer_did = loc[p].user) = 1

PageCapReached ==
    \E p \in Procs : /\ ReadViewed(p)
                     /\ loc[p].limit >= 1
                     /\ Len(loc[p].mahootFeed) = loc[p].limit
                     /\ loc[p].limit < loc[p].userPrefs.daily_post_limit
                                         - loc[p].postsViewedCount
                     /\ UnviewedRows(loc[p].user, "a1") # {}

(***************************************************************************)
(* C5. Muting: a followee whose quota is 0 when the call runs has no item  *)
(* in the call's feed and gets no ViewRecord from the call, at any point   *)
(* of the call.                                                            *)
(***************************************************************************)
MutedNeverServed ==
    \A p \in Procs : \A e \in getUserFollowees(loc[p].user) :
        (pc[p] # "idle" /\ e.mahoot_number = 0)
        => /\ ItemsFrom(loc[p].mahootFeed, e.followee_did) = 0
           /\ CountWhere(NewViews(p),
                         LAMBDA r : /\ r.author_did = e.followee_did
                                    /\ r.viewer_did = loc[p].user) = 0

MutedSkipped ==
    \E p \in Procs : \E e \in getUserFollowees(loc[p].user) :
        /\ pc[p] = "returned"
        /\ loc[p].stage = "full"
        /\ e.mahoot_number = 0
        /\ UnviewedRows(loc[p].user, e.followee_did) # {}
        /\ Len(loc[p].mahootFeed) >= 1
        /\ Len(loc[p].mahootFeed) < loc[p].postsToShow

(***************************************************************************)
(* C6. trackPostView is idempotent: whatever calls were made, and so after *)
(* two calls with the same arguments, there is at most one ViewRecord for  *)
(* a (post_uri, viewer).                                                   *)
(***************************************************************************)
OneViewPerPostAndViewer ==
    \A q \in post : \A u \in Users : ViewsOfPost(post_statistics, q.uri, u) <= 1

(***************************************************************************)
(* C7. DailyStat consistency: when no call is in progress, every DailyStat *)
(* row (there is one for each day on which a call got past the early       *)
(* returns) has total_posts_viewed equal to the number of the user's       *)
(* ViewRecords dated that day.                                             *)
(***************************************************************************)
DailyStatConsistent ==
    Idle => \A s \in daily_stats : s.total_posts_viewed = ViewsOn(s.user_did, s.date)

(***************************************************************************)
(* C8. Priority-first allocation: at every point of a call, a followee has *)
(* items in the feed only if every non-muted followee of strictly higher   *)
(* quota has min(its remaining quota, its unviewed supply) items in it;    *)
(* and with quotas 10 and 3, page cap 8, no views today and at least 8     *)
(* unviewed posts of the quota-10 followee, the returned feed holds 8      *)
(* items of the quota-10 followee and none of the other.                   *)
(***************************************************************************)
PriorityFirst ==
    \A p \in Procs :
        /\ \A f \in loc[p].followees : \A g \in loc[p].followees :
              ( /\ ItemsFrom(loc[p].mahootFeed, f.followee_did) > 0
                /\ g.mahoot_number > f.mahoot_number )
              => ItemsFrom(loc[p].mahootFeed, g.followee_did) =
                    Min(g.mahoot_number - ViewedTodayFrom(p, g.followee_did),
                        SupplyAtStart(p, g.followee_did))
        /\ ( /\ pc[p] = "returned"
             /\ loc[p].followees = {EdgeRow(loc[p].user, "a1", 10),
                                    EdgeRow(loc[p].user, "a2", 3)}
             /\ loc[p].postsToShow = 8
             /\ loc[p].postsViewedCount = 0
             /\ SupplyAtStart(p, "a1") >= 8 )
           => /\ ItemsFrom(loc[p].mahootFeed, "a1") = 8
              /\ ItemsFrom(loc[p].mahootFeed, "a2") = 0
              /\ Len(loc[p].mahootFeed) = 8

TightCapServed ==
    \E p \in Procs : /\ pc[p] = "returned"
                     /\ loc[p].followees = {EdgeRow(loc[p].user, "a1", 10),
                                            EdgeRow(loc[p].user, "a2", 3)}
                     /\ loc[p].postsToShow = 8
                     /\ SupplyAtStart(p, "a1") >= 8
                     /\ SupplyAtStart(p, "a2") >= 3
                     /\ ItemsFrom(loc[p].mahootFeed, "a1") = 8

(***************************************************************************)
(* C9. One followee of quota 3 with 50 unread posts, daily_post_limit 300, *)
(* page size 30: the first call returns exactly 3 items and adds exactly 3 *)
(* ViewRecords of that followee, and a later call of the same day returns  *)
(* no item of that followee.                                               *)
(***************************************************************************)
NineServesThreeOnce ==
    \A p \in Procs :
        (pc[p] = "returned" /\ post = CatalogNine)
        => /\ pre[p].ps = EmptyBag
                => /\ Len(loc[p].mahootFeed) = 3
                   /\ ItemsFrom(loc[p].mahootFeed, "a1") = 3
                   /\ BagCardinality(NewViews(p)) = 3
                   /\ ViewsOfOn(loc[p].user, "a1", DateOf(now)) = 3
           /\ ( /\ pre[p].ps # EmptyBag
                /\ \A r \in DOMAIN pre[p].ps : DateOf(r.viewed_at) = DateOf(pre[p].at)
                /\ DateOf(now) = DateOf(pre[p].at) )
                => ItemsFrom(loc[p].mahootFeed, "a1") = 0

(***************************************************************************)
(* C10. Empty followee list: a call of a user without edges returns an     *)
(* empty feed and no cursor, writes no ViewRecord and no DailyStat row and *)
(* changes no edge; the only row it may add is the user's own default      *)
(* preferences row.                                                        *)
(***************************************************************************)
NoFolloweesNoEffect ==
    \A p \in Procs :
        (pc[p] = "returned" /\ getUserFollowees(loc[p].user) = {})
        => /\ loc[p].mahootFeed = <<>>
           /\ loc[p].cursor = Undefined
           /\ post_statistics = pre[p].ps
           /\ daily_stats = pre[p].ds
           /\ followee_relationships = pre[p].fr
           /\ \/ user_preferences = pre[p].up
              \/ /\ ~\E r \in pre[p].up : r.user_did = loc[p].user
                 /\ user_preferences =
                       pre[p].up \cup {PrefsRow(loc[p].user, DefaultDailyPostLimit)}

NoFolloweesPrefsCreated ==
    \E p \in Procs : /\ pc[p] = "returned"
                     /\ loc[p].stage = "noFollowees"
                     /\ user_preferences # pre[p].up
                     /\ post # {}


NonPositivePageEmpty ==
    \A p \in Procs :
        (pc[p] = "returned" /\ loc[p].limit <= 0)
        => /\ loc[p].mahootFeed = <<>>
           /\ post_statistics = pre[p].ps


(***************************************************************************)
(* User management: preferences and the default Mahoot number.  The table  *)
(* operators take the tables they read and give the table or the value     *)
(* that results.                                                           *)
(***************************************************************************)
QuotaFloor == 1
QuotaCeiling == 20

\* the callers of the management functions and of the XRPC methods
Clients == {2}

Max(a, b) == IF a >= b THEN a ELSE b

\* mutant: Math.floor in place of Math.ceil
FloorDiv(a, b) == a \div b

\* Math.ceil(a / b) for b > 0
CeilDiv(a, b) == -((-a) \div b)

PrefsRowOf(u, l, m) ==
    [user_did |-> u, daily_post_limit |-> l, default_mahoot_number |-> m]

PrefsOf(up, userDid) == {r \in up : r.user_did = userDid}

\* mutant: an existing row is overwritten with the defaults
WithPreferencesReset(up, userDid) ==
    {r \in up : r.user_did # userDid}
        \cup {PrefsRowOf(userDid, DefaultDailyPostLimit, DefaultMahootNumber)}

\* user_preferences after getOrCreateUserPreferences
WithPreferences(up, userDid) ==
    IF PrefsOf(up, userDid) # {} THEN up
    ELSE up \cup {PrefsRowOf(userDid, DefaultDailyPostLimit, DefaultMahootNumber)}

\* the row getOrCreateUserPreferences returns
getOrCreateUserPreferences(up, userDid) ==
    CHOOSE r \in PrefsOf(WithPreferences(up, userDid), userDid) : TRUE

\* mutant: the cap is taken with Math.max
calculateDefaultMahootNumberMaxCap(up, fr, userDid) ==
    LET preferences == getOrCreateUserPreferences(up, userDid)
        count == Cardinality({r \in fr : r.user_did = userDid})
    IN  IF count = 0 THEN preferences.default_mahoot_number
        ELSE Max(Max(QuotaFloor, (-((-preferences.daily_post_limit) \div count))),
                 QuotaCeiling)

\* the value calculateDefaultMahootNumber returns
calculateDefaultMahootNumber(up, fr, userDid) ==
    LET preferences == getOrCreateUserPreferences(up, userDid)
        count == Cardinality({r \in fr : r.user_did = userDid})
    IN  IF count = 0 THEN preferences.default_mahoot_number
        ELSE Min(Max(QuotaFloor, CeilDiv(preferences.daily_post_limit, count)),
                 QuotaCeiling)

NoRequest == [op |-> "none", user |-> "u1", result |-> Undefined]

(***************************************************************************)
(* calculateDefaultMahootNumber called on stores of any daily limit,       *)
(* default and number of followees (the followees are numbered).           *)
(***************************************************************************)
QuotaLimits == ((-1)..MaxLimit) \cup {7, 300, 1000}
QuotaDefaults == {1, DefaultMahootNumber, 50}
QuotaCounts == (0..(MaxQuota + 1)) \cup {20, 1000}

InitQuota ==
    /\ now = [day |-> 0, last |-> FALSE]
    /\ post = {}
    /\ post_statistics = EmptyBag
    /\ daily_stats = {}
    /\ user_preferences \in
          {{}} \cup {{PrefsRowOf("u1", l, m)} : l \in QuotaLimits, m \in QuotaDefaults}
    /\ \E n \in QuotaCounts :
          followee_relationships =
              {EdgeRow("u1", k, DefaultMahootNumber) : k \in 1..n}
    /\ pc = [c \in Clients |-> "idle"]
    /\ loc = [c \in Clients |-> NoRequest]
    /\ pre = [c \in Clients |-> Snapshot]

CalculateDefault(c) ==
    /\ pc[c] = "idle"
    /\ \E u \in Users :
          /\ user_preferences' = WithPreferences(user_preferences, u)
          /\ loc' = [loc EXCEPT ![c] =
                        [op |-> "calculateDefaultMahootNumber", user |-> u,
                         result |-> calculateDefaultMahootNumber(
                                        user_preferences, followee_relationships, u)]]
    /\ pc' = [pc EXCEPT ![c] = "done"]
    /\ pre' = [pre EXCEPT ![c] = Snapshot]
    /\ UNCHANGED <<now, followee_relationships, post, post_statistics, daily_stats>>

NextQuota == \E c \in Clients : CalculateDefault(c)

SpecQuota == InitQuota /\ [][NextQuota]_vars

\* what a finished calculateDefaultMahootNumber call was given
Calculated(c) == pc[c] = "done" /\ loc[c].op = "calculateDefaultMahootNumber"

LimitGiven(c) ==
    getOrCreateUserPreferences(pre[c].up, loc[c].user).daily_post_limit

CountGiven(c) == Cardinality({r \in pre[c].fr : r.user_did = loc[c].user})

(***************************************************************************)
(* C13. calculateDefaultQuota: with N >= 1 followees the result is         *)
(* clamp(ceil(L / N), 1, 20), where ceil(L / N) is the least integer k     *)
(* with k * N >= L; so it lies in 1..20 and is 15 for L = 300, N = 20.     *)
(* With N = 0 it is the stored default_mahoot_number (7 when the row is    *)
(* created by the call), and a stored row is left as it was.               *)
(***************************************************************************)
QuotaFormula ==
    \A c \in Clients :
        Calculated(c)
        => LET L == LimitGiven(c)
               N == CountGiven(c)
               stored == PrefsOf(pre[c].up, loc[c].user)
           IN  /\ N >= 1 =>
                     /\ \E k \in (-1)..1000 :
                           /\ k * N >= L
                           /\ (k - 1) * N < L
                           /\ loc[c].result =
                                 (IF k < 1 THEN 1 ELSE IF k > 20 THEN 20 ELSE k)
                     /\ loc[c].result \in 1..20
                     /\ (L = 300 /\ N = 20) => loc[c].result = 15
               /\ N = 0 =>
                     /\ \A r \in stored : loc[c].result = r.default_mahoot_number
                     /\ stored = {} => loc[c].result = 7
               /\ stored # {} => user_preferences = pre[c].up

QuotaFifteen ==
    \E c \in Clients : /\ Calculated(c)
                       /\ LimitGiven(c) = 300
                       /\ CountGiven(c) = 20
                       /\ loc[c].result = 15

(***************************************************************************)
(* C14 as stated. With L = 300 and N = 1000 calculateDefaultQuota returns  *)
(* 20.                                                                     *)
(***************************************************************************)
QuotaThousandIsTwenty ==
    \A c \in Clients :
        (Calculated(c) /\ LimitGiven(c) = 300 /\ CountGiven(c) = 1000)
        => loc[c].result = 20

(***************************************************************************)
(* C14 as amended. With L = 300 and N = 1000 calculateDefaultQuota returns *)
(* 1: ceil(300 / 1000) = 1, which the floor of 1 and the ceiling of 20     *)
(* leave as it is.                                                         *)
(***************************************************************************)
QuotaThousandIsOne ==
    \A c \in Clients :
        (Calculated(c) /\ LimitGiven(c) = 300 /\ CountGiven(c) = 1000)
        => loc[c].result = 1

QuotaThousand ==
    \E c \in Clients : /\ Calculated(c)
                       /\ LimitGiven(c) = 300
                       /\ CountGiven(c) = 1000
                       /\ loc[c].result = 1
                       /\ user_preferences = pre[c].up


(***************************************************************************)
(* User management: the setters and the followee registry.  An optional    *)
(* argument is <<>> when it is omitted and <<x>> when x is passed.         *)
(***************************************************************************)
Absent == <<>>

Accounts == {"u1", "u2"}

\* mutant: the UPDATE has no WHERE user_did = userDid
updateUserDailyPostLimitAllRows(up, userDid, dailyPostLimit) ==
    {[r EXCEPT !.daily_post_limit = dailyPostLimit] : r \in WithPreferences(up, userDid)}

\* user_preferences after updateUserDailyPostLimit
updateUserDailyPostLimit(up, userDid, dailyPostLimit) ==
    {IF r.user_did = userDid THEN [r EXCEPT !.daily_post_limit = dailyPostLimit] ELSE r :
        r \in WithPreferences(up, userDid)}

\* user_preferences after updateDefaultMahootNumber
updateDefaultMahootNumber(up, userDid, defaultMahootNumber) ==
    {IF r.user_did = userDid THEN [r EXCEPT !.default_mahoot_number = defaultMahootNumber]
     ELSE r : r \in WithPreferences(up, userDid)}

\* `at://${userDid}/app.bsky.graph.follow/${followeeDid}`; a follow record's own
\* URI is <<author, record key>>
DefaultFollowUri(userDid, followeeDid) == <<userDid, followeeDid>>

FolloweeRow(u, f, q, uri, t) ==
    [user_did |-> u, followee_did |-> f, mahoot_number |-> q, follow_uri |-> uri,
     created_at |-> t, updated_at |-> t]

EdgeOf(fr, userDid, followeeDid) ==
    {r \in fr : r.user_did = userDid /\ r.followee_did = followeeDid}

\* mahootNumber ?? await calculateDefaultMahootNumber(db, userDid)
FinalMahootNumber(up, fr, userDid, mahootNumber) ==
    IF mahootNumber = Absent THEN calculateDefaultMahootNumber(up, fr, userDid)
    ELSE mahootNumber[1]

\* mutant: the update branch also resets created_at
addOrUpdateFolloweeRelationshipReplace(up, fr, userDid, followeeDid, mahootNumber, followUri, t) ==
    (fr \ EdgeOf(fr, userDid, followeeDid))
        \cup {FolloweeRow(userDid, followeeDid,
                          FinalMahootNumber(up, fr, userDid, mahootNumber),
                          IF followUri = Absent THEN DefaultFollowUri(userDid, followeeDid)
                          ELSE followUri[1], t)}

\* followee_relationships after addOrUpdateFolloweeRelationship at instant t
addOrUpdateFolloweeRelationship(up, fr, userDid, followeeDid, mahootNumber, followUri, t) ==
    LET finalMahootNumber == FinalMahootNumber(up, fr, userDid, mahootNumber)
        uri == IF followUri = Absent THEN DefaultFollowUri(userDid, followeeDid)
               ELSE followUri[1]
    IN  IF EdgeOf(fr, userDid, followeeDid) = {}
        THEN fr \cup {FolloweeRow(userDid, followeeDid, finalMahootNumber, uri, t)}
        ELSE {IF r \in EdgeOf(fr, userDid, followeeDid)
              THEN [r EXCEPT !.mahoot_number = finalMahootNumber, !.follow_uri = uri,
                             !.updated_at = t]
              ELSE r : r \in fr}

\* followee_relationships after removeFolloweeRelationship
removeFolloweeRelationship(fr, userDid, followeeDid) ==
    fr \ EdgeOf(fr, userDid, followeeDid)

(***************************************************************************)
(* Direct calls of the user-management functions, as the tests make them,  *)
(* on empty tables and under a running clock.  loc[c] holds the last call, *)
(* the number of calls made and, for comparison, the registry as a map     *)
(* from (user, followee) to the quota last set for the pair.               *)
(***************************************************************************)
DailyLimitArgs == {-1, 150, 1000, 10000}
DefaultQuotaArgs == {0, 8, 51}
QuotaArgs == {Absent, <<0>>, <<12>>}

FinishCall(c, op, u, args, result, registry) ==
    /\ loc' = [loc EXCEPT ![c] = [op |-> op, user |-> u, args |-> args,
                                  result |-> result, calls |-> loc[c].calls + 1,
                                  registry |-> registry]]
    /\ pc' = [pc EXCEPT ![c] = "done"]
    /\ pre' = [pre EXCEPT ![c] = Snapshot]

InitManagement(fr) ==
    /\ now = [day |-> 0, last |-> FALSE]
    /\ user_preferences = {}
    /\ followee_relationships = fr
    /\ post = {}
    /\ post_statistics = EmptyBag
    /\ daily_stats = {}
    /\ pc = [c \in Clients |-> "idle"]
    /\ loc = [c \in Clients |->
                [op |-> "none", user |-> "u1", args |-> Absent, result |-> Undefined,
                 calls |-> 0, registry |-> [k \in Accounts \X Authors |-> Absent]]]
    /\ pre = [c \in Clients |->
                [up |-> {}, fr |-> fr, ps |-> EmptyBag, ds |-> {},
                 at |-> [day |-> 0, last |-> FALSE]]]

\* the edges the preference setters find
SetterEdges ==
    SUBSET {FolloweeRow(u, "a1", 12, DefaultFollowUri(u, "a1"), [day |-> 0, last |-> FALSE]) :
               u \in Accounts}

InitSetters == \E fr \in SetterEdges : InitManagement(fr)

InitRegistry == InitManagement({})

GetOrCreate(c) ==
    /\ loc[c].calls < MaxCalls
    /\ \E u \in Accounts :
          /\ user_preferences' = WithPreferences(user_preferences, u)
          /\ FinishCall(c, "getOrCreateUserPreferences", u, Absent,
                        getOrCreateUserPreferences(user_preferences, u), loc[c].registry)
    /\ UNCHANGED <<now, followee_relationships, post, post_statistics, daily_stats>>

SetDailyLimit(c) ==
    /\ loc[c].calls < MaxCalls
    /\ \E u \in Accounts : \E n \in DailyLimitArgs :
          LET up == updateUserDailyPostLimit(user_preferences, u, n)
          IN  /\ user_preferences' = up
              /\ FinishCall(c, "updateUserDailyPostLimit", u, <<n>>,
                            CHOOSE r \in PrefsOf(up, u) : TRUE, loc[c].registry)
    /\ UNCHANGED <<now, followee_relationships, post, post_statistics, daily_stats>>

SetDefaultQuota(c) ==
    /\ loc[c].calls < MaxCalls
    /\ \E u \in Accounts : \E m \in DefaultQuotaArgs :
          LET up == updateDefaultMahootNumber(user_preferences, u, m)
          IN  /\ user_preferences' = up
              /\ FinishCall(c, "updateDefaultMahootNumber", u, <<m>>,
                            CHOOSE r \in PrefsOf(up, u) : TRUE, loc[c].registry)
    /\ UNCHANGED <<now, followee_relationships, post, post_statistics, daily_stats>>

AddOrUpdate(c) ==
    /\ loc[c].calls < MaxCalls
    /\ \E u \in Accounts : \E f \in Authors : \E q \in QuotaArgs :
          LET fr == addOrUpdateFolloweeRelationship(user_preferences,
                        followee_relationships, u, f, q, Absent, now)
              final == FinalMahootNumber(user_preferences, followee_relationships, u, q)
          IN  /\ followee_relationships' = fr
              /\ user_preferences' = IF q = Absent
                                     THEN WithPreferences(user_preferences, u)
                                     ELSE user_preferences
              /\ FinishCall(c, "addOrUpdateFolloweeRelationship", u, <<f, q>>,
                            CHOOSE r \in EdgeOf(fr, u, f) : TRUE,
                            [loc[c].registry EXCEPT ![<<u, f>>] = <<final>>])
    /\ UNCHANGED <<now, post, post_statistics, daily_stats>>

Remove(c) ==
    /\ loc[c].calls < MaxCalls
    /\ \E u \in Accounts : \E f \in Authors :
          /\ followee_relationships' =
                removeFolloweeRelationship(followee_relationships, u, f)
          /\ FinishCall(c, "removeFolloweeRelationship", u, <<f>>, Undefined,
                        [loc[c].registry EXCEPT ![<<u, f>>] = Absent])
    /\ UNCHANGED <<now, user_preferences, post, post_statistics, daily_stats>>

NextSetters ==
    \E c \in Clients : \/ GetOrCreate(c)
                       \/ SetDailyLimit(c)
                       \/ SetDefaultQuota(c)

SpecSetters == InitSetters /\ [][NextSetters]_vars

NextRegistry ==
    \/ Tick
    \/ \E c \in Clients : AddOrUpdate(c) \/ Remove(c)

SpecRegistry == InitRegistry /\ [][NextRegistry]_vars


\* the ranges the XRPC methods accept
MinDailyPostLimit == 1
MaxDailyPostLimit == 1000
MinDefaultMahootNumber == 1
MaxDefaultMahootNumber == 50
MinMahootNumber == 0
MaxMahootNumber == 50

\* a finished call of the named function
Called(c, op) == pc[c] = "done" /\ loc[c].op = op

(***************************************************************************)
(* C15. Setter validation: updateUserDailyPostLimit fails for every n      *)
(* outside 1..1000 and updateDefaultMahootNumber fails for every n outside *)
(* 1..50, and the failed call leaves the stored preferences as they were.  *)
(***************************************************************************)
SettersValidate ==
    \A c \in Clients :
        /\ ( /\ Called(c, "updateUserDailyPostLimit")
             /\ loc[c].args[1] \notin MinDailyPostLimit..MaxDailyPostLimit )
           => (loc[c].result = Undefined /\ user_preferences = pre[c].up)
        /\ ( /\ Called(c, "updateDefaultMahootNumber")
             /\ loc[c].args[1] \notin MinDefaultMahootNumber..MaxDefaultMahootNumber )
           => (loc[c].result = Undefined /\ user_preferences = pre[c].up)

(***************************************************************************)
(* C18. getOrCreate: a user has at most one preferences row; a call for a  *)
(* user without a row adds exactly the row (300, 7) and returns it; a call *)
(* for a user with a row returns that row and leaves the table as it was.  *)
(***************************************************************************)
GetOrCreateOnce ==
    /\ \A u \in Accounts : Cardinality(PrefsOf(user_preferences, u)) <= 1
    /\ \A c \in Clients :
          Called(c, "getOrCreateUserPreferences")
          => LET stored == PrefsOf(pre[c].up, loc[c].user)
                 fresh == [user_did |-> loc[c].user, daily_post_limit |-> 300,
                           default_mahoot_number |-> 7]
             IN  /\ stored = {} => /\ user_preferences = pre[c].up \cup {fresh}
                                   /\ loc[c].result = fresh
                 /\ stored # {} => /\ user_preferences = pre[c].up
                                   /\ loc[c].result \in stored

GetOrCreateLater ==
    \E c \in Clients : /\ Called(c, "getOrCreateUserPreferences")
                       /\ loc[c].result.daily_post_limit = 150
                       /\ loc[c].result.default_mahoot_number = 8
                       /\ user_preferences = pre[c].up

(***************************************************************************)
(* C19. Preference persistence and frame: after updateUserDailyPostLimit   *)
(* (user, n) getOrCreate(user) has daily_post_limit n and the default      *)
(* quota it had; after updateDefaultMahootNumber(user, m) it has default   *)
(* quota m and the daily limit it had; no other user's row and no          *)
(* FolloweeEdge is changed by either.                                      *)
(***************************************************************************)
SettersPersist ==
    \A c \in Clients :
        LET u == loc[c].user
            before == getOrCreateUserPreferences(pre[c].up, u)
            after == getOrCreateUserPreferences(user_preferences, u)
            frame == /\ \A v \in Accounts \ {u} :
                           PrefsOf(user_preferences, v) = PrefsOf(pre[c].up, v)
                     /\ followee_relationships = pre[c].fr
                     /\ WithPreferences(user_preferences, u) = user_preferences
        IN  /\ Called(c, "updateUserDailyPostLimit")
               => /\ after.daily_post_limit = loc[c].args[1]
                  /\ after.default_mahoot_number = before.default_mahoot_number
                  /\ frame
            /\ Called(c, "updateDefaultMahootNumber")
               => /\ after.default_mahoot_number = loc[c].args[1]
                  /\ after.daily_post_limit = before.daily_post_limit
                  /\ frame

SettersBothPersisted ==
    \E c \in Clients :
        /\ Called(c, "updateUserDailyPostLimit")
        /\ loc[c].args = <<150>>
        /\ PrefsOf(user_preferences, loc[c].user)
              = {PrefsRowOf(loc[c].user, 150, 8)}
        /\ \E v \in Accounts \ {loc[c].user} : PrefsOf(user_preferences, v) # {}
        /\ followee_relationships # {}

(***************************************************************************)
(* C20. The followee registry is a map keyed by (user, followee): a pair   *)
(* has at most one edge; getUserFollowees(user) holds (followee, q) exactly*)
(* when the last call for the pair was addOrUpdate with quota q;           *)
(* addOrUpdate on an existing edge sets its quota and keeps its created_at *)
(* and every other edge; remove of an absent edge ends without error and   *)
(* changes nothing.                                                        *)
(***************************************************************************)
RegistryIsMap ==
    /\ \A u \in Accounts : \A f \in Authors :
          Cardinality(EdgeOf(followee_relationships, u, f)) <= 1
    /\ \A c \in Clients : \A u \in Accounts :
          {<<r.followee_did, r.mahoot_number>> : r \in getUserFollowees(u)}
             = {<<f, loc[c].registry[<<u, f>>][1]>> :
                   f \in {g \in Authors : loc[c].registry[<<u, g>>] # Absent}}
    /\ \A c \in Clients :
          Called(c, "addOrUpdateFolloweeRelationship")
          => LET u == loc[c].user
                 f == loc[c].args[1]
                 q == loc[c].args[2]
                 old == EdgeOf(pre[c].fr, u, f)
             IN  /\ loc[c].result \in followee_relationships
                 /\ q # Absent => loc[c].result.mahoot_number = q[1]
                 /\ followee_relationships \ {loc[c].result} = pre[c].fr \ old
                 /\ \A r \in old : loc[c].result.created_at = r.created_at
                 /\ loc[c].result.updated_at = pre[c].at
    /\ \A c \in Clients :
          Called(c, "removeFolloweeRelationship")
          => /\ EdgeOf(followee_relationships, loc[c].user, loc[c].args[1]) = {}
             /\ EdgeOf(pre[c].fr, loc[c].user, loc[c].args[1]) = {}
                   => /\ followee_relationships = pre[c].fr
                      /\ user_preferences = pre[c].up

RegistryEdgeUpdated ==
    \E c \in Clients :
        /\ Called(c, "addOrUpdateFolloweeRelationship")
        /\ loc[c].result.created_at # loc[c].result.updated_at
        /\ \E r \in EdgeOf(pre[c].fr, loc[c].user, loc[c].args[1]) :
              r.mahoot_number # loc[c].result.mahoot_number
        /\ Cardinality(followee_relationships) >= 2


(***************************************************************************)
(* The service: the XRPC methods of a signed-in user, the ingestion of     *)
(* follow and unfollow commits, and the feed handler, on new tables with   *)
(* one post.  A request starts when no feed call is under way.             *)
(***************************************************************************)
\* mutant: the upper end of the range is not checked
ValidDailyPostLimitFloorOnly(n) == n >= MinDailyPostLimit

\* daily_post_limit < 1 || daily_post_limit > 1000 rejects
ValidDailyPostLimit(n) == n >= MinDailyPostLimit /\ n <= MaxDailyPostLimit

\* default_mahoot_number < 1 || default_mahoot_number > 50 rejects
ValidDefaultMahootNumber(n) == n >= MinDefaultMahootNumber /\ n <= MaxDefaultMahootNumber

\* mahoot_number < 0 || mahoot_number > 50 rejects
ValidMahootNumber(n) == n >= MinMahootNumber /\ n <= MaxMahootNumber

DailyBodies == {Absent, <<0>>, <<1>>, <<1000>>, <<1001>>}
DefaultBodies == {Absent, <<0>>, <<50>>, <<51>>}
MahootBodies == {Absent, <<-1>>, <<0>>, <<50>>, <<51>>}
FolloweeBodies == {""} \cup Authors

\* the record key of the follow record a user keeps for a followee
RecordKey(f) == IF f = "a1" THEN "rkey1" ELSE "rkey2"

FollowUris == {<<u, RecordKey(f)>> : u \in Users, f \in Authors}

\* mutant: the UPDATE has no WHERE user_did = userDid
updateMahootNumbersForUserAllRows(up, fr, userDid, t) ==
    IF {r \in fr : r.user_did = userDid} = {} THEN fr
    ELSE {[r EXCEPT !.mahoot_number = calculateDefaultMahootNumber(up, fr, userDid),
                    !.updated_at = t] : r \in fr}

\* followee_relationships after updateMahootNumbersForUser at instant t
updateMahootNumbersForUser(up, fr, userDid, t) ==
    IF {r \in fr : r.user_did = userDid} = {} THEN fr
    ELSE LET newDefaultMahoot == calculateDefaultMahootNumber(up, fr, userDid)
         IN  {IF r.user_did = userDid
              THEN [r EXCEPT !.mahoot_number = newDefaultMahoot, !.updated_at = t]
              ELSE r : r \in fr}

InitService ==
    /\ now = [day |-> 0, last |-> FALSE]
    /\ user_preferences = {}
    /\ followee_relationships = {}
    /\ post = Catalog(1, 0)
    /\ post_statistics = EmptyBag
    /\ daily_stats = {}
    /\ pc = [p \in Procs \cup Clients |-> "idle"]
    /\ loc = [p \in Procs \cup Clients |->
                IF p \in Procs THEN InitLoc
                ELSE [op |-> "none", user |-> "u1", args |-> Absent,
                      result |-> Undefined, calls |-> 0]]
    /\ pre = [p \in Procs \cup Clients |->
                [up |-> {}, fr |-> {}, ps |-> EmptyBag, ds |-> {},
                 at |-> [day |-> 0, last |-> FALSE]]]

RequestStarts(c) ==
    /\ loc[c].calls < MaxRequests
    /\ \A p \in Procs : CallEnded(p)

Answer(c, status, op, u, args, result) ==
    /\ loc' = [loc EXCEPT ![c] = [op |-> op, user |-> u, args |-> args,
                                  result |-> result, calls |-> loc[c].calls + 1]]
    /\ pc' = [pc EXCEPT ![c] = status]
    /\ pre' = [pre EXCEPT ![c] = Snapshot]

\* com.mahoot.putPreferences
putPreferences(c) ==
    /\ RequestStarts(c)
    /\ \E u \in Users : \E d \in DailyBodies : \E m \in DefaultBodies :
          LET up1 == IF d = Absent THEN user_preferences
                     ELSE updateUserDailyPostLimit(user_preferences, u, d[1])
              up2 == IF m = Absent THEN up1
                     ELSE updateDefaultMahootNumber(up1, u, m[1])
              up3 == WithPreferences(up2, u)
          IN  IF d # Absent /\ ~ValidDailyPostLimit(d[1])
              THEN /\ user_preferences' = user_preferences
                   /\ Answer(c, "rejected", "putPreferences", u, <<d, m>>, Undefined)
              ELSE IF m # Absent /\ ~ValidDefaultMahootNumber(m[1])
              THEN /\ user_preferences' = up1
                   /\ Answer(c, "rejected", "putPreferences", u, <<d, m>>, Undefined)
              ELSE /\ user_preferences' = up3
                   /\ Answer(c, "done", "putPreferences", u, <<d, m>>,
                             CHOOSE r \in PrefsOf(up3, u) : TRUE)
    /\ UNCHANGED <<now, followee_relationships, post, post_statistics, daily_stats>>

\* com.mahoot.updateFollowee
updateFollowee(c) ==
    /\ RequestStarts(c)
    /\ \E u \in Users : \E f \in FolloweeBodies : \E q \in MahootBodies :
          IF f = "" \/ (q # Absent /\ ~ValidMahootNumber(q[1]))
          THEN /\ UNCHANGED <<user_preferences, followee_relationships>>
               /\ Answer(c, "rejected", "updateFollowee", u, <<f, q>>, Undefined)
          ELSE LET fr == addOrUpdateFolloweeRelationship(user_preferences,
                             followee_relationships, u, f, q, Absent, now)
               IN  /\ followee_relationships' = fr
                   /\ user_preferences' = IF q = Absent
                                          THEN WithPreferences(user_preferences, u)
                                          ELSE user_preferences
                   /\ Answer(c, "done", "updateFollowee", u, <<f, q>>,
                             CHOOSE r \in EdgeOf(fr, u, f) : TRUE)
    /\ UNCHANGED <<now, post, post_statistics, daily_stats>>

\* com.mahoot.removeFollowee
removeFollowee(c) ==
    /\ RequestStarts(c)
    /\ \E u \in Users : \E f \in FolloweeBodies :
          IF f = ""
          THEN /\ UNCHANGED followee_relationships
               /\ Answer(c, "rejected", "removeFollowee", u, <<f>>, Undefined)
          ELSE /\ followee_relationships' =
                     removeFolloweeRelationship(followee_relationships, u, f)
               /\ Answer(c, "done", "removeFollowee", u, <<f>>, Undefined)
    /\ UNCHANGED <<now, user_preferences, post, post_statistics, daily_stats>>

\* handleEvent on a commit that creates one follow record:
\* processFollowEvents, then updateMahootNumbersForUser(author)
FollowCreated(c) ==
    /\ RequestStarts(c)
    /\ \E u \in Users : \E f \in Authors :
          LET uri == <<u, RecordKey(f)>>
              up1 == WithPreferences(user_preferences, u)
              fr1 == addOrUpdateFolloweeRelationship(user_preferences,
                         followee_relationships, u, f, Absent, <<uri>>, now)
          IN  /\ user_preferences' = up1
              /\ followee_relationships' = updateMahootNumbersForUser(up1, fr1, u, now)
              /\ Answer(c, "done", "followCreated", u, <<f, uri>>, Undefined)
    /\ UNCHANGED <<now, post, post_statistics, daily_stats>>

\* handleEvent on a commit that deletes one follow record: processUnfollowEvents,
\* then updateMahootNumbersForUser for the user of an edge still carrying the URI
FollowDeleted(c) ==
    /\ RequestStarts(c)
    /\ \E uri \in FollowUris :
          LET found == {r \in followee_relationships : r.follow_uri = uri}
          IN  \E fr1 \in IF found = {} THEN {followee_relationships}
                         ELSE {removeFolloweeRelationship(followee_relationships,
                                   r.user_did, r.followee_did) : r \in found} :
                 LET left == {r \in fr1 : r.follow_uri = uri}
                 IN  /\ IF left = {}
                        THEN /\ followee_relationships' = fr1
                             /\ user_preferences' = user_preferences
                        ELSE \E r \in left :
                                /\ user_preferences' =
                                      WithPreferences(user_preferences, r.user_did)
                                /\ followee_relationships' =
                                      updateMahootNumbersForUser(
                                          WithPreferences(user_preferences, r.user_did),
                                          fr1, r.user_did, now)
                     /\ Answer(c, "done", "followDeleted", uri[1], <<uri>>, Undefined)
    /\ UNCHANGED <<now, post, post_statistics, daily_stats>>

NextService ==
    \/ \E c \in Clients : \/ putPreferences(c)
                          \/ updateFollowee(c)
                          \/ removeFollowee(c)
                          \/ FollowCreated(c)
                          \/ FollowDeleted(c)
    \/ Handler(1)

SpecService == InitService /\ [][NextService]_vars

\* a request of client c is answered in this step
Answered(c) == loc'[c].calls = loc[c].calls + 1

\* C16: validation precedes mutation: a step in which putPreferences,
\* updateFollowee or removeFollowee is rejected with a validation error changes
\* no field of any stored row, whatever fields the body carries (a
\* putPreferences body with both daily_post_limit and default_mahoot_number
\* included).
ValidationPrecedesMutation ==
    [][\A c \in Clients :
          (Answered(c) /\ pc'[c] = "rejected")
             => /\ user_preferences' = user_preferences
                /\ followee_relationships' = followee_relationships
                /\ post_statistics' = post_statistics
                /\ daily_stats' = daily_stats]_vars

\* C17: range invariants: in every state reached through putPreferences,
\* updateFollowee, removeFollowee, generateFeed and the ingestion of follow and
\* unfollow events, every preferences row has daily_post_limit in 1..1000 and
\* default_mahoot_number in 1..50, and every followee edge has mahoot_number
\* in 0..50.
RangeInvariants ==
    /\ \A r \in user_preferences :
          /\ r.daily_post_limit \in MinDailyPostLimit..MaxDailyPostLimit
          /\ r.default_mahoot_number \in MinDefaultMahootNumber..MaxDefaultMahootNumber
    /\ \A e \in followee_relationships :
          e.mahoot_number \in MinMahootNumber..MaxMahootNumber

\* the ends of the ranges are stored: after a putPreferences that set the
\* default to 50, an updateFollowee without mahoot_number has stored an edge
\* at 50
RangeEndsStored ==
    \E c \in Clients :
       /\ pc[c] = "done"
       /\ loc[c].op = "updateFollowee"
       /\ loc[c].args[2] = Absent
       /\ \E r \in user_preferences :
             r.default_mahoot_number = MaxDefaultMahootNumber
       /\ \E e \in followee_relationships : e.mahoot_number = MaxMahootNumber


(***************************************************************************)
(* Ingestion of follow and unfollow commits of user u1, with requests of   *)
(* u1 on the edges in between.  Every edge of the initial state was        *)
(* created by the follow record <<user, RecordKey(followee)>>, and the     *)
(* caller only updates edges that exist, so every edge of every state was  *)
(* created by that record.  User u2 has edges of its own and never acts.   *)
(***************************************************************************)
IngestLimits == {3, DefaultDailyPostLimit}

\* the edges of a user after follow events for the followees F, with daily limit l
FollowedEdges(u, F, l) ==
    {FolloweeRow(u, f,
                 Min(Max(QuotaFloor, CeilDiv(l, Cardinality(F))), QuotaCeiling),
                 <<u, RecordKey(f)>>, [day |-> 0, last |-> FALSE]) : f \in F}

InitIngest ==
    /\ now = [day |-> 0, last |-> FALSE]
    /\ post = {}
    /\ post_statistics = EmptyBag
    /\ daily_stats = {}
    /\ \E l \in IngestLimits : \E F \in SUBSET Authors : \E G \in SUBSET Authors :
          /\ user_preferences =
                {PrefsRowOf("u1", l, DefaultMahootNumber),
                 PrefsRowOf("u2", DefaultDailyPostLimit, DefaultMahootNumber)}
          /\ followee_relationships =
                FollowedEdges("u1", F, l) \cup FollowedEdges("u2", G, DefaultDailyPostLimit)
    /\ pc = [p \in Procs \cup Clients |-> "idle"]
    /\ loc = [p \in Procs \cup Clients |->
                IF p \in Procs THEN InitLoc
                ELSE [op |-> "none", user |-> "u1", args |-> Absent,
                      result |-> Undefined, calls |-> 0]]
    /\ pre = [p \in Procs \cup Clients |-> Snapshot]

\* com.mahoot.updateFollowee on an edge that exists
UpdateFollowed(c) ==
    /\ updateFollowee(c)
    /\ EdgeOf(followee_relationships, loc'[c].user, loc'[c].args[1]) # {}

NextIngest ==
    \E c \in Clients : \/ FollowCreated(c)
                       \/ FollowDeleted(c)
                       \/ UpdateFollowed(c)

SpecIngest == InitIngest /\ [][NextIngest]_vars

\* the step is the ingestion of a commit of the given kind
Ingested(c, op) == Answered(c) /\ loc'[c].op = op

\* C21: unfollow by source reference: an edge (U, F) created by the follow
\* record S, whatever updateFollowee requests were made on it since, is
\* deleted by the ingestion of the deletion of S; the deletion of a record
\* whose edge is not in the registry changes nothing.
UnfollowBySourceRef ==
    [][\A c \in Clients :
          Ingested(c, "followDeleted")
          => \A f \in Authors :
                loc'[c].args[1] = <<loc'[c].user, RecordKey(f)>>
                => IF EdgeOf(followee_relationships, loc'[c].user, f) # {}
                   THEN EdgeOf(followee_relationships', loc'[c].user, f) = {}
                   ELSE /\ followee_relationships' = followee_relationships
                        /\ user_preferences' = user_preferences]_vars

\* C22: mass overwrite on follow: when the ingestion of a follow record of
\* user U is done, every edge of U, amplified and muted ones included, has
\* the mahoot_number calculateDefaultMahootNumber gives for U's new number of
\* followees, and the edges of every other user are as they were.
MassOverwriteOnFollow ==
    [][\A c \in Clients :
          Ingested(c, "followCreated")
          => LET U == loc'[c].user
             IN  /\ \A e \in followee_relationships' :
                       e.user_did = U
                       => e.mahoot_number =
                             calculateDefaultMahootNumber(user_preferences',
                                 followee_relationships', U)
                 /\ EdgeOf(followee_relationships', U, loc'[c].args[1]) # {}
                 /\ {e \in followee_relationships' : e.user_did # U}
                       = {e \in followee_relationships : e.user_did # U}]_vars

\* a follow was ingested for a user who had muted one followee, while another
\* user has edges of a different mahoot_number
MutedEdgeOverwritten ==
    \E c \in Clients :
       /\ pc[c] = "done"
       /\ loc[c].op = "followCreated"
       /\ \E e \in pre[c].fr : e.user_did = loc[c].user /\ e.mahoot_number = 0
       /\ \E e \in followee_relationships :
             /\ e.user_did = loc[c].user
             /\ e.mahoot_number # 0
             /\ \E o \in followee_relationships :
                   o.user_did # loc[c].user /\ o.mahoot_number # e.mahoot_number

\* C23: recalculation on unfollow: when the ingestion of the deletion of a
\* follow record has removed an edge of user U, the edges U has left carry the
\* mahoot_number calculateDefaultMahootNumber gives for U's new number of
\* followees.
RecalculationOnUnfollow ==
    [][\A c \in Clients :
          (/\ Ingested(c, "followDeleted")
           /\ \E e \in followee_relationships :
                 e.user_did = loc'[c].user /\ e \notin followee_relationships')
          => \A e \in followee_relationships' :
                e.user_did = loc'[c].user
                => e.mahoot_number =
                      calculateDefaultMahootNumber(user_preferences',
                          followee_relationships', loc'[c].user)]_vars


(***************************************************************************)
(* The feed handler when the store raises errors.  The handler catches     *)
(* nothing, so an error of a storage call ends the call; only the insert   *)
(* of updateDailyStats is caught, and then the update or the closing       *)
(* select raises.  Nothing is run in a transaction.                        *)
(***************************************************************************)
StorageSteps ==
    {"prefs", "prefsInsert", "followees", "viewed", "fetch", "track", "stats",
     "statsUpdate"}

\* mutant: the views of the failed call are rolled back
AfterFailureRolledBack(p) == pre[p].ps

\* post_statistics after a storage call of the handler has raised
AfterFailure(p) == post_statistics

\* the storage call the handler is waiting for raises
StorageFails(p) ==
    /\ pc[p] \in StorageSteps
    /\ pc' = [pc EXCEPT ![p] = "failed"]
    /\ loc' = [loc EXCEPT ![p].stage = "storageError", ![p].sorted = <<>>,
                          ![p].shuffled = <<>>, ![p].slots = 0,
                          ![p].viewedFromFollowee = 0]
    /\ post_statistics' = AfterFailure(p)
    /\ UNCHANGED <<now, user_preferences, followee_relationships, post, daily_stats,
                   pre>>

NextFaults == Handler(1) \/ StorageFails(1)

SpecFaults == InitGeneral /\ [][NextFaults]_vars

\* C24: a generateFeed call without a requester identity fails with the
\* authentication error and nothing else: it does not get to any storage
\* call, and no preferences row, ViewRecord or DailyStat row is created or
\* changed.
NoRequesterNoEffect ==
    \A p \in Procs :
        (pc[p] # "idle" /\ ~(loc[p].user \in Users))
        => /\ pc[p] = "failed"
           /\ loc[p].stage = "authRequired"
           /\ loc[p].writes = 0
           /\ user_preferences = pre[p].up
           /\ followee_relationships = pre[p].fr
           /\ post_statistics = pre[p].ps
           /\ daily_stats = pre[p].ds

\* a call without requester failed on a store that already holds views
NoRequesterFailed ==
    \E p \in Procs : /\ pc[p] = "failed"
                     /\ loc[p].stage = "authRequired"
                     /\ loc[p].user = ""
                     /\ post_statistics # EmptyBag
                     /\ daily_stats # {}

RollingWindow == 30
WeekWindow == 7
Today == 31

Fraction(n, d) == [num |-> n, den |-> d]

RECURSIVE SumOver(_, _)
SumOver(S, column) ==
    IF S = {} THEN 0
    ELSE LET r == CHOOSE x \in S : TRUE
         IN  r[column] + SumOver(S \ {r}, column)

\* SUM(column)
SqlSum(S, column) == IF S = {} THEN Absent ELSE <<SumOver(S, column)>>

\* mutant: the sum is divided by the days of the window
SqlAvgOverWindow(S, column) ==
    IF S = {} THEN Absent ELSE <<Fraction(SumOver(S, column), RollingWindow)>>

\* AVG(column)
SqlAvg(S, column) ==
    IF S = {} THEN Absent ELSE <<Fraction(SumOver(S, column), Cardinality(S))>>

\* Number(x || 0)
NumberOrZero(x) == IF x = Absent THEN 0 ELSE x[1]

FractionOrZero(x) == IF x = Absent THEN Fraction(0, 1) ELSE x[1]

\* Math.round of a fraction that is not negative
Round(q) == (2 * q.num + q.den) \div (2 * q.den)

\* the rows get30DayRollingStats aggregates: date >= cutoffDate
RollingRows(userDid, t) ==
    {r \in daily_stats : r.user_did = userDid /\ r.date >= DateOf(t) - RollingWindow}

get30DayRollingStats(userDid, t) ==
    LET stats == RollingRows(userDid, t)
    IN  [totalPostsViewed |-> NumberOrZero(SqlSum(stats, "total_posts_viewed")),
         averagePostsPerDay |-> FractionOrZero(SqlAvg(stats, "total_posts_viewed")),
         followeeCount |-> Round(FractionOrZero(SqlAvg(stats, "followee_count"))),
         daysWithData |-> Cardinality(stats)]

\* the instant the given number of days before t
DaysAgo(t, n) == [t EXCEPT !.day = @ - n]

\* viewed_at >= an instant (ISO strings compare as instants)
AtOrAfter(t, from) == t.day > from.day \/ (t.day = from.day /\ (t.last \/ ~from.last))

ViewedSince(viewerDid, authorDid, from) ==
    CountWhere(post_statistics,
               LAMBDA r : /\ r.viewer_did = viewerDid
                          /\ r.author_did = authorDid
                          /\ AtOrAfter(r.viewed_at, from))

getPostAuthorStats(viewerDid, authorDid, t) ==
    LET relationship == {r \in followee_relationships :
                            r.user_did = viewerDid /\ r.followee_did = authorDid}
    IN  [author_did |-> authorDid,
         viewer_did |-> viewerDid,
         posts_viewed_today |->
             ViewedSince(viewerDid, authorDid, [day |-> DateOf(t), last |-> FALSE]),
         posts_viewed_this_week |-> ViewedSince(viewerDid, authorDid, DaysAgo(t, WeekWindow)),
         posts_viewed_this_month |->
             ViewedSince(viewerDid, authorDid, DaysAgo(t, RollingWindow)),
         mahoot_number |-> IF relationship = {} THEN 0
                           ELSE (CHOOSE r \in relationship : TRUE).mahoot_number]

\* mutant: the authors are taken from the followee list
ViewedAuthorsFollowed(viewerDid) ==
    {r.followee_did : r \in {e \in followee_relationships : e.user_did = viewerDid}}

\* SELECT DISTINCT author_did FROM post_statistics WHERE viewer_did = viewerDid
ViewedAuthors(viewerDid) ==
    {r.author_did : r \in {x \in DOMAIN post_statistics : x.viewer_did = viewerDid}}

\* the arrays getAllAuthorStats may return: the rows come in no stated order
getAllAuthorStats(viewerDid, t) ==
    {[i \in 1..Len(authors) |-> getPostAuthorStats(viewerDid, authors[i], t)] :
        authors \in Perms(ViewedAuthors(viewerDid))}

StatDates == {0, 1, Today}
StatTotals == {1, MaxLimit + 1}

DailyRow(u, d, n, k) ==
    [user_did |-> u, date |-> d, total_posts_viewed |-> n, followee_count |-> k]

ViewRow(a, v, d) ==
    [post_uri |-> <<a, 1>>, author_did |-> a, viewer_did |-> v,
     viewed_at |-> [day |-> d, last |-> FALSE]]

\* daily_stats of u1 over three dates and of u2 over one
InitRolling ==
    /\ post_statistics = EmptyBag
    /\ followee_relationships = {}
    /\ \E D \in SUBSET StatDates : \E n \in [D -> StatTotals] : \E k \in [D -> 1..2] :
       \E other \in SUBSET {DailyRow("u2", Today, MaxLimit + 2, 2)} :
          daily_stats = {DailyRow("u1", d, n[d], k[d]) : d \in D} \cup other

\* views of two viewers, old and of today, and some edges of u1
InitAuthors ==
    /\ daily_stats = {}
    /\ \E V \in SUBSET {ViewRow(a, v, d) : a \in Authors, v \in Accounts, d \in {0, Today}} :
          post_statistics = SetToBag(V)
    /\ followee_relationships \in
          SUBSET {EdgeRow("u1", "a1", 0), EdgeRow("u1", "a2", MaxQuota)}

InitStats ==
    /\ now = [day |-> Today, last |-> FALSE]
    /\ user_preferences = {}
    /\ post = {}
    /\ InitRolling \/ InitAuthors
    /\ pc = [c \in Clients |-> "idle"]
    /\ loc = [c \in Clients |-> NoRequest]
    /\ pre = [c \in Clients |-> Snapshot]

Rolling30Day(c) ==
    /\ pc[c] = "idle"
    /\ \E u \in Accounts :
          loc' = [loc EXCEPT ![c] = [op |-> "get30DayRollingStats", user |-> u,
                                     result |-> get30DayRollingStats(u, now)]]
    /\ pc' = [pc EXCEPT ![c] = "done"]
    /\ UNCHANGED <<now, tables, pre>>

AllAuthorStats(c) ==
    /\ pc[c] = "idle"
    /\ \E u \in Accounts : \E stats \in getAllAuthorStats(u, now) :
          loc' = [loc EXCEPT ![c] = [op |-> "getAllAuthorStats", user |-> u,
                                     result |-> stats]]
    /\ pc' = [pc EXCEPT ![c] = "done"]
    /\ UNCHANGED <<now, tables, pre>>

NextStats == \E c \in Clients : Rolling30Day(c) \/ AllAuthorStats(c)

SpecStats == InitStats /\ [][NextStats]_vars

\* the DailyStat rows of a user dated within the 30 days before today
RowsInWindow(u) ==
    {r \in daily_stats : r.user_did = u /\ r.date >= Today - 30 /\ r.date <= Today}

\* C26: rolling30Day averages over the days with data: avgPerDay is the sum
\* of total_posts_viewed over the user's DailyStat rows of the last 30 days
\* divided by the number of those rows, daysWithData is that number, and
\* without such rows every value returned is 0.
RollingAverage ==
    \A c \in Clients :
        (pc[c] = "done" /\ loc[c].op = "get30DayRollingStats")
        => LET rows == RowsInWindow(loc[c].user)
               n == Cardinality(rows)
               sum == SumOver(rows, "total_posts_viewed")
               res == loc[c].result
           IN  /\ res.daysWithData = n
               /\ res.totalPostsViewed = sum
               /\ res.averagePostsPerDay.den > 0
               /\ n > 0 => res.averagePostsPerDay.num * n = sum * res.averagePostsPerDay.den
               /\ n = 0 => /\ res.totalPostsViewed = 0
                           /\ res.averagePostsPerDay.num = 0
                           /\ res.followeeCount = 0

\* a user with rows on 2 days of the window and an older row
RollingOverTwoDays ==
    \E c \in Clients :
       /\ pc[c] = "done"
       /\ loc[c].op = "get30DayRollingStats"
       /\ loc[c].result.daysWithData = 2
       /\ loc[c].result.averagePostsPerDay = Fraction(MaxLimit + 2, 2)
       /\ \E r \in daily_stats : r.user_did = loc[c].user /\ r.date < Today - 30

\* C27: allAuthorStats(viewer) has exactly one entry for each author with at
\* least one ViewRecord of the viewer and no other entry: a followee never
\* served is not in it, and an author without an edge of the viewer is in it
\* with mahoot_number 0.
AuthorsEverViewed ==
    \A c \in Clients :
        (pc[c] = "done" /\ loc[c].op = "getAllAuthorStats")
        => LET res == loc[c].result
               u == loc[c].user
           IN  /\ \A a \in Authors :
                     Cardinality({i \in 1..Len(res) : res[i].author_did = a})
                        = IF ViewsOfOn(u, a, 0) + ViewsOfOn(u, a, Today) >= 1 THEN 1 ELSE 0
               /\ \A i \in 1..Len(res) :
                     /\ res[i].author_did \in Authors
                     /\ res[i].viewer_did = u
                     /\ \A e \in followee_relationships :
                           (e.user_did = u /\ e.followee_did = res[i].author_did)
                           => res[i].mahoot_number = e.mahoot_number
                     /\ (~\E e \in followee_relationships :
                            e.user_did = u /\ e.followee_did = res[i].author_did)
                        => res[i].mahoot_number = 0

\* the viewer has a followee never served, which is not listed, and views of
\* an author it does not follow, which is listed
UnfollowedAuthorListed ==
    \E c \in Clients :
       /\ pc[c] = "done"
       /\ loc[c].op = "getAllAuthorStats"
       /\ Len(loc[c].result) = 1
       /\ loc[c].result[1].author_did = "a1"
       /\ loc[c].result[1].mahoot_number = 0
       /\ EdgeOf(followee_relationships, loc[c].user, "a1") = {}
       /\ EdgeOf(followee_relationships, loc[c].user, "a2") # {}


(***************************************************************************)
(* Two feed calls of one user that overlap: the handler awaits each        *)
(* storage call, so the steps of the calls interleave at the storage       *)
(* calls.  The clock stands still.                                         *)
(***************************************************************************)
Callers == {1, 3}

InitRace ==
    /\ now = [day |-> 0, last |-> FALSE]
    /\ post_statistics = EmptyBag
    /\ daily_stats = {}
    /\ post = CatalogRace
    /\ user_preferences \in {{}, {PrefsRow("u1", 1)}}
    /\ followee_relationships = {EdgeRow("u1", "a1", MaxQuota)}
    /\ pc = [p \in Callers |-> "idle"]
    /\ loc = [p \in Callers |-> InitLoc]
    /\ pre = [p \in Callers |-> Snapshot]

\* getOrCreateUserPreferences: the insert hits the primary key, because the
\* other call has inserted the row since the select; the error ends the call
PrefsInsertFails(p) ==
    /\ pc[p] = "prefsInsert"
    /\ \E r \in user_preferences : r.user_did = loc[p].user
    /\ pc' = [pc EXCEPT ![p] = "failed"]
    /\ loc' = [loc EXCEPT ![p].stage = "storageError"]
    /\ UNCHANGED <<now, tables, pre>>

NextRace == \E p \in Callers : Handler(p) \/ PrefsInsertFails(p)

SpecRace == InitRace /\ [][NextRace]_vars

\* C28: concurrent ViewRecord insertion is safe: when two generateFeed calls
\* of one user interleave at their storage calls, no (post_uri, viewer) pair
\* has more than one ViewRecord, and no call fails once it has begun to
\* insert, even if both calls selected the same post.
ConcurrentInsertSafe ==
    /\ \A q \in post : \A u \in Users : ViewsOfPost(post_statistics, q.uri, u) <= 1
    /\ \A p \in Callers : pc[p] = "failed" => loc[p].mahootFeed = <<>>

\* C29: daily budget under concurrency: when generateFeed calls of one user
\* interleave at their storage calls, the user's ViewRecords of the day are
\* never more than daily_post_limit.
DailyBudgetConcurrent ==
    \A r \in user_preferences : \A d \in Days :
        ViewsOn(r.user_did, d) <= r.daily_post_limit

\* two calls of one user have returned after reading the same viewedCount and
\* inserting ViewRecords each
BothServed(p, q) ==
    /\ p # q
    /\ pc[p] = "returned" /\ pc[q] = "returned"
    /\ loc[p].stage = "full" /\ loc[q].stage = "full"
    /\ loc[p].user = loc[q].user
    /\ loc[p].postsViewedCount = loc[q].postsViewedCount
    /\ loc[p].mahootFeed # <<>> /\ loc[q].mahootFeed # <<>>

\* C30: the DailyStat race: when two generateFeed calls of one user have read
\* the same viewedCount, have both inserted ViewRecords and both upserted
\* DailyStat, both have returned without error, exactly one DailyStat row
\* exists for (user, date), and its total_posts_viewed is less than the
\* number of the user's ViewRecords of the day.
DailyStatRace ==
    \A p \in Callers : \A q \in Callers :
        BothServed(p, q)
        => LET rows == {s \in daily_stats :
                           s.user_did = loc[p].user /\ s.date = loc[p].today}
           IN  /\ Cardinality(rows) = 1
               /\ \A s \in rows :
                     s.total_posts_viewed < ViewsOn(loc[p].user, loc[p].today)

\* such an interleaving exists, on different posts
DailyStatUndercounts ==
    \E p \in Callers : \E q \in Callers :
        /\ BothServed(p, q)
        /\ loc[p].mahootFeed[1].post # loc[q].mahootFeed[1].post
        /\ \E s \in daily_stats :
              /\ s.user_did = loc[p].user
              /\ s.total_posts_viewed = 1
              /\ ViewsOn(loc[p].user, s.date) = 2

\* C31: getOrCreate does not fail on a concurrent first access: when two
\* calls for the same new user both select before either inserts, neither
\* ends with a storage error, each holds preferences (300, 7), and the user
\* has exactly one preferences row afterwards.
FirstAccessSafe ==
    /\ \A p \in Callers : ~(pc[p] = "failed" /\ loc[p].stage = "storageError")
    /\ \A p \in Callers : \A q \in Callers :
          ( /\ p # q
            /\ pre[p].up = {} /\ pre[q].up = {}
            /\ loc[p].user = loc[q].user
            /\ pc[p] \notin {"idle", "prefs", "prefsInsert", "failed"}
            /\ pc[q] \notin {"idle", "prefs", "prefsInsert", "failed"} )
          => /\ loc[p].userPrefs = PrefsRow(loc[p].user, DefaultDailyPostLimit)
             /\ loc[q].userPrefs = PrefsRow(loc[q].user, DefaultDailyPostLimit)
             /\ Cardinality({r \in user_preferences : r.user_did = loc[p].user}) = 1

(***************************************************************************)
(* Repeated calls of one day.  The requester keeps calling the handler     *)
(* with a page size of at least 1, one call after the other, and every     *)
(* storage call returns; the clock stays at one instant of day 0, any      *)
(* instant of the day, its last millisecond included.  The catalog, the    *)
(* preferences and the edges are fixed.                                    *)
(***************************************************************************)
InitDay ==
    /\ now \in {t \in Instants : t.day = 0}
    /\ post_statistics = EmptyBag
    /\ daily_stats = {}
    /\ user_preferences \in PrefsConfigs
    /\ followee_relationships \in EdgeConfigs
    /\ post = GeneralCatalog
    /\ pc = [p \in Procs |-> "idle"]
    /\ loc = [p \in Procs |-> InitLoc]
    /\ pre = [p \in Procs |-> Snapshot]

\* handler is called by the requester with params.limit >= 1
Request(p) == Begin(p) /\ loc'[p].limit >= 1

\* the steps of a call that has begun
Steps(p) ==
    \/ PrefsSelect(p)
    \/ PrefsInsert(p)
    \/ GetFollowees(p)
    \/ GetViewed(p)
    \/ CheckLimit(p)
    \/ LoopHead(p)
    \/ Fetch(p)
    \/ Track(p)
    \/ StatsInsert(p)
    \/ StatsInsertFails(p)
    \/ StatsUpdate(p)

NextDay == Request(1) \/ Steps(1)

SpecDay == InitDay /\ [][NextDay]_vars /\ WF_vars(NextDay)

\* the daily_post_limit getOrCreateUserPreferences gives the handler
LimitOf(u) ==
    IF \E r \in user_preferences : r.user_did = u
    THEN (CHOOSE r \in user_preferences : r.user_did = u).daily_post_limit
    ELSE DefaultDailyPostLimit

NonMuted(u) == {e \in followee_relationships : e.user_did = u /\ e.mahoot_number > 0}

\* the quotas of the non-muted followees fit in the daily limit
QuotasFit == \A u \in Users : SumOver(NonMuted(u), "mahoot_number") <= LimitOf(u)

\* every non-muted followee has been served min(quota, posts unviewed at the
\* start of the day) posts; no post was viewed at the start of the day
GuaranteedServed ==
    \A u \in Users : \A e \in NonMuted(u) :
        ViewsOfOn(u, e.followee_did, 0) =
            Min(e.mahoot_number,
                Cardinality({q \in post : q.author_did = e.followee_did}))

\* C32: guaranteed minimum per followee: with the catalog and preferences
\* fixed and the quotas of the non-muted followees summing to at most
\* daily_post_limit, repeated non-overlapping calls with page size >= 1 on
\* one day eventually reach a state where every non-muted followee has been
\* served exactly min(quota, its posts unviewed at the start of the day).
GuaranteedMinimum == (QuotasFit /\ post_statistics = EmptyBag) ~> GuaranteedServed

\* the same, for a day whose calls all come before its last millisecond
GuaranteedMinimumEarly ==
    (QuotasFit /\ post_statistics = EmptyBag /\ ~now.last) ~> (Idle /\ GuaranteedServed)

\* the ViewRecords of the requester for an author dated the day of the call,
\* as they were when the call began
ViewedBefore(p, a) ==
    CountWhere(pre[p].ps,
               LAMBDA r : /\ r.viewer_did = loc[p].user
                          /\ r.author_did = a
                          /\ DateOf(r.viewed_at) = DateOf(pre[p].at))

ViewedBeforeAll(p) ==
    CountWhere(pre[p].ps,
               LAMBDA r : /\ r.viewer_did = loc[p].user
                          /\ DateOf(r.viewed_at) = DateOf(pre[p].at))

\* sum over the followees F of S of min(max(quota(F) - viewed(F), 0), supply(F))
RECURSIVE Fillable(_, _, _)
Fillable(p, S, asRead) ==
    IF S = {} THEN 0
    ELSE LET e == CHOOSE x \in S : TRUE
             viewed == IF asRead THEN ViewedTodayFrom(p, e.followee_did)
                                 ELSE ViewedBefore(p, e.followee_did)
         IN  Min(Max(e.mahoot_number - viewed, 0), SupplyAtStart(p, e.followee_did))
                + Fillable(p, S \ {e}, asRead)

PastEarlyReturns(p) == pc[p] = "returned" /\ loc[p].stage = "full"

\* C33: work-conserving fill: a call with page size P >= 1 that got past the
\* early returns has feed.length = min(pageCap, sum over the non-muted
\* followees F of min(max(quota(F) - viewedTodayFrom(F), 0), unviewed(F))),
\* where pageCap = min(daily_post_limit - viewedCount, P) and the counts are
\* those of the requester's ViewRecords dated today.
WorkConservingFill ==
    \A p \in Procs :
        (PastEarlyReturns(p) /\ loc[p].limit >= 1)
        => Len(loc[p].mahootFeed) =
              Min(Min(loc[p].userPrefs.daily_post_limit - ViewedBeforeAll(p), loc[p].limit),
                  Fillable(p, NonMuted(loc[p].user), FALSE))

\* the same with the counts the call read from getPostsViewedToday
WorkConservingFillAsRead ==
    \A p \in Procs :
        (PastEarlyReturns(p) /\ loc[p].limit >= 1)
        => Len(loc[p].mahootFeed) =
              Min(loc[p].postsToShow, Fillable(p, NonMuted(loc[p].user), TRUE))

\* the over-fetched candidates of the followee the call is about to fetch
Candidates(p) ==
    SeqToSet(getUnviewedPostsByAuthor(loc[p].user, Head(loc[p].sorted).followee_did,
                                      loc[p].slots * OverFetch))

\* the fetch can leave post c among the posts to serve from the followee
CanServe(p, c) == ENABLED (Fetch(p) /\ c \in SeqToSet(loc'[p].shuffled))

\* C34: random subset selection: the whole over-fetched candidate set of a
\* followee (up to 3 x slotsForF unviewed posts) is shuffled before it is
\* truncated to slotsForF, so every fetched candidate, not only the slotsForF
\* most recently indexed ones, can be among the posts served from the
\* followee in the call.
ShuffleBeforeTruncate ==
    \A p \in Procs :
        pc[p] = "fetch" => \A c \in Candidates(p) : CanServe(p, c)

\* what the handler does: the posts to serve are the slotsForF most recently
\* indexed candidates, whatever the shuffle
NewestOnlyServed ==
    \A p \in Procs :
        pc[p] = "track"
        => \A i \in 1..Len(loc[p].shuffled) : \A c \in UnviewedRows(loc[p].user, Head(loc[p].sorted).followee_did) :
              c.indexedAt > loc[p].shuffled[i].indexedAt
              => \/ c \in SeqToSet(loc[p].shuffled)
                 \/ \E j \in 1..Len(loc[p].mahootFeed) : loc[p].mahootFeed[j].post = c.uri

\* C35: the DailyStat write of a full call: a call that got past the early
\* returns has upserted DailyStat(user, today) with total_posts_viewed =
\* the viewedCount it read + feed length and followee_count = the number of
\* all the user's edges (muted ones included), also when the feed is empty;
\* the returned metadata reports postsViewedToday = that viewedCount and
\* remainingPosts = daily_post_limit - viewedCount, and the feed is not
\* longer than remainingPosts.
FullCallStat ==
    \A p \in Procs :
        PastEarlyReturns(p)
        => LET u == loc[p].user
               rows == {s \in daily_stats : s.user_did = u /\ s.date = loc[p].today}
               read == BagCardinality(loc[p].postsViewedToday)
           IN  /\ rows = {[user_did |-> u, date |-> loc[p].today,
                           total_posts_viewed |-> read + Len(loc[p].mahootFeed),
                           followee_count |->
                               Cardinality({e \in pre[p].fr : e.user_did = u})]}
               /\ loc[p].metadata.postsViewedToday = read
               /\ loc[p].metadata.remainingPosts =
                     loc[p].userPrefs.daily_post_limit - read
               /\ Len(loc[p].mahootFeed) <= loc[p].metadata.remainingPosts

\* a full call with an empty feed, a muted followee and views read has
\* overwritten the row of the day
EmptyFullCallStat ==
    \E p \in Procs :
        /\ PastEarlyReturns(p)
        /\ loc[p].mahootFeed = <<>>
        /\ BagCardinality(loc[p].postsViewedToday) >= 1
        /\ \E e \in pre[p].fr : e.user_did = loc[p].user /\ e.mahoot_number = 0
        /\ \E s \in daily_stats : s.followee_count = 2 /\ s.total_posts_viewed >= 1

\* C36: default quota on re-follow: when addOrUpdate is called with the quota
\* omitted for a followee that already has an edge and is the user's only
\* followee, the followee is left out of the count N, so N = 0 and the edge's
\* quota is set to the default_quota of the user's preferences.
RefollowDefault ==
    \A c \in Clients :
        ( /\ Called(c, "addOrUpdateFolloweeRelationship")
          /\ loc[c].args[2] = Absent
          /\ {e.followee_did : e \in {x \in pre[c].fr : x.user_did = loc[c].user}}
                = {loc[c].args[1]} )
        => \A r \in PrefsOf(user_preferences, loc[c].user) :
              /\ loc[c].result.mahoot_number = r.default_mahoot_number
              /\ \A e \in EdgeOf(followee_relationships, loc[c].user, loc[c].args[1]) :
                    e.mahoot_number = r.default_mahoot_number

(***************************************************************************)
(* The day after.  The view log holds ViewRecords of the day before, as    *)
(* the calls of that day can leave them under the configuration: one per   *)
(* post, within the quotas and the daily limit.  The clock stands still at *)
(* an instant of day 0.                                                    *)
(***************************************************************************)
Yesterday == [day |-> -1, last |-> FALSE]

ViewOf(q, viewerDid, t) ==
    [post_uri |-> q.uri, author_did |-> q.author_did, viewer_did |-> viewerDid,
     viewed_at |-> t]

InitRollover ==
    /\ now \in {t \in Instants : t.day = 0}
    /\ daily_stats = {}
    /\ user_preferences \in PrefsConfigs
    /\ followee_relationships \in EdgeConfigs
    /\ post = GeneralCatalog
    /\ \E V \in SUBSET post :
          /\ Cardinality(V) <= LimitOf("u1")
          /\ \A a \in Authors :
                Cardinality({q \in V : q.author_did = a})
                    <= SumOver(EdgeOf(followee_relationships, "u1", a), "mahoot_number")
          /\ post_statistics = SetToBag({ViewOf(q, "u1", Yesterday) : q \in V})
    /\ pc = [p \in Procs |-> "idle"]
    /\ loc = [p \in Procs |-> InitLoc]
    /\ pre = [p \in Procs |-> Snapshot]

SpecRollover == InitRollover /\ [][Handler(1)]_vars

\* the call has read getPostsViewedToday
HasReadViewed(p) ==
    pc[p] \in {"limit", "loop", "fetch", "track", "stats", "statsUpdate"} \/ ReadViewed(p)

\* the requester's ViewRecords of an earlier day, when the call began
EarlierViews(p) ==
    {r \in DOMAIN pre[p].ps : /\ r.viewer_did = loc[p].user
                               /\ DateOf(r.viewed_at) < DateOf(pre[p].at)}

Other == "u2"

OtherStat == [user_did |-> Other, date |-> 0, total_posts_viewed |-> 1,
              followee_count |-> 1]

EarlierStat(u) == [user_did |-> u, date |-> -1, total_posts_viewed |-> 0,
                   followee_count |-> 1]

InitIsolation ==
    /\ now \in {t \in Instants : t.day = 0}
    /\ \E up \in PrefsConfigs : user_preferences = up \cup {PrefsRow(Other, 1)}
    /\ \E fr \in EdgeConfigs : followee_relationships = fr \cup {EdgeRow(Other, "a1", 1)}
    /\ post = GeneralCatalog
    /\ post_statistics = SetToBag({ViewOf(PostRow("a1", 1), Other, now)})
    /\ daily_stats = {OtherStat, EarlierStat("u1")}
    /\ pc = [p \in Procs |-> "idle"]
    /\ loc = [p \in Procs |-> InitLoc]
    /\ pre = [p \in Procs |-> Snapshot]

SpecIsolation == InitIsolation /\ [][Handler(1)]_vars

\* what a step of a call of user u may change
WritesOnlyOwn(u, today) ==
    /\ post' = post
    /\ followee_relationships' = followee_relationships
    /\ post_statistics \sqsubseteq post_statistics'
    /\ \A r \in DOMAIN (post_statistics' (-) post_statistics) : r.viewer_did = u
    /\ \A s \in daily_stats : (s.user_did # u \/ s.date # today) => s \in daily_stats'
    /\ \A s \in daily_stats' \ daily_stats : s.user_did = u /\ s.date = today
    /\ user_preferences \subseteq user_preferences'
    /\ \A r \in user_preferences' \ user_preferences : r.user_did = u

\* C38: isolation and read-only inputs: a generateFeed call for user U
\* writes only ViewRecords with viewer = U, the DailyStat row (U, today) and
\* possibly U's own preferences row; it never changes the post catalog, any
\* followee edge, or a ViewRecord, DailyStat or preferences row of another
\* user.
Isolation == [][\A p \in Procs : WritesOnlyOwn(loc'[p].user, loc'[p].today)]_vars

\* a call of u1 has created u1's preferences row, served posts and written
\* u1's DailyStat row of the day, beside the rows of u2
WroteBesideOther ==
    \E p \in Procs :
        /\ PastEarlyReturns(p)
        /\ loc[p].user # Other
        /\ loc[p].mahootFeed # <<>>
        /\ pre[p].up = {PrefsRow(Other, 1)}
        /\ \E r \in DOMAIN pre[p].ps : r.viewer_did = Other
        /\ \E r \in DOMAIN post_statistics : r.viewer_did = loc[p].user
        /\ OtherStat \in daily_stats
        /\ \E s \in daily_stats : s.user_did = loc[p].user /\ s.date = loc[p].today

=============================================================================
